---- MODULE Spec2Model ----
(***************************************************************************)
(* Payroll calculation engine of backend/services/calc.py.                 *)
(*                                                                         *)
(* The engine computes with Python's decimal.Decimal under the default     *)
(* context: 28 significant digits, ROUND_HALF_EVEN.  A Decimal is modelled *)
(* as a record [neg, digs, exp] whose value is (+/-) digs * 10^exp, digs   *)
(* being the coefficient's decimal digits, most significant first, with    *)
(* neither leading nor trailing zeros (zero has no digits), so that two    *)
(* records are equal exactly when the Decimals compare equal.              *)
(***************************************************************************)
EXTENDS Integers, Sequences, FiniteSets, TLC

\* ------------------------------------------------------------------------
\* decimal.Decimal arithmetic (default context)
\* ------------------------------------------------------------------------

\* decimal.getcontext().prec
DecPrec == 28

Zeros(n) == [i \in 1..n |-> 0]

RECURSIVE LeadIdx(_, _)
\* index of the first non-zero digit at or after i, Len(d)+1 when there is none
LeadIdx(d, i) == IF i > Len(d) THEN Len(d) + 1
                 ELSE IF d[i] # 0 THEN i ELSE LeadIdx(d, i + 1)

RECURSIVE TrailIdx(_, _)
\* index of the last non-zero digit at or before i, 0 when there is none
TrailIdx(d, i) == IF i < 1 THEN 0
                  ELSE IF d[i] # 0 THEN i ELSE TrailIdx(d, i - 1)

StripLead(d) == SubSeq(d, LeadIdx(d, 1), Len(d))

DecZero == [neg |-> FALSE, digs |-> <<>>, exp |-> 0]

\* canonical record of (+/-) d * 10^e
DecTrim(neg, d, e, lo, hi) ==
    IF hi = 0 THEN DecZero
    ELSE [neg |-> neg, digs |-> SubSeq(d, lo, hi), exp |-> e + (Len(d) - hi)]

DecNorm(neg, d, e) == DecTrim(neg, d, e, LeadIdx(d, 1), TrailIdx(d, Len(d)))

RECURSIVE NatDigs(_)
NatDigs(n) == IF n < 10 THEN <<n>> ELSE Append(NatDigs(n \div 10), n % 10)

RECURSIVE DigsNat(_, _)
\* integer value of the first i digits of d (small coefficients only)
DigsNat(d, i) == IF i = 0 THEN 0 ELSE 10 * DigsNat(d, i - 1) + d[i]

\* Decimal(str(n * 10^e)) for an integer n
Dec(n, e) == DecNorm(n < 0, NatDigs(IF n < 0 THEN -n ELSE n), e)

IncStep(p, di) == [c |-> (di + p.c) \div 10, d |-> <<(di + p.c) % 10>> \o p.d]

RECURSIVE IncFrom(_, _)
\* digits i..Len(d) of d + 1, with the carry out of position i
IncFrom(d, i) == IF i > Len(d) THEN [c |-> 1, d |-> <<>>]
                 ELSE IncStep(IncFrom(d, i + 1), d[i])

IncOut(p) == IF p.c = 1 THEN <<1>> \o p.d ELSE p.d

\* the coefficient d plus one
IncDigs(d) == IncOut(IncFrom(d, 1))

\* ROUND_HALF_EVEN of the coefficient d to its first n digits (n >= 0); sticky says
\* that non-zero digits beyond d were already dropped.  Returns the kept digits.
RoundKeep(d, n, sticky) ==
    LET kept == SubSeq(d, 1, n)
        first == d[n + 1]
        rest == TrailIdx(d, Len(d)) > n + 1 \/ sticky
        odd == n > 0 /\ d[n] % 2 = 1
        up == first > 5 \/ (first = 5 /\ (rest \/ odd))
    IN IF up THEN IncDigs(kept) ELSE kept

\* the context's rounding of (+/-) d * 10^e to DecPrec significant digits
\* (d has no leading zero)
DecRound(neg, d, e, sticky) ==
    IF Len(d) <= DecPrec THEN DecNorm(neg, d, e)
    ELSE DecNorm(neg, RoundKeep(d, DecPrec, sticky), e + (Len(d) - DecPrec))

\* the digits of d, (+/-) d * 10^from, rewritten for the exponent to <= from
Shift(d, from, to) == d \o Zeros(from - to)

PadLeft(d, n) == Zeros(n - Len(d)) \o d

Min2(a, b) == IF a <= b THEN a ELSE b
Max2(a, b) == IF a >= b THEN a ELSE b

RECURSIVE CmpFrom(_, _, _)
\* -1, 0, 1 as x < y, x = y, x > y, for digit strings of one length compared from i on
CmpFrom(x, y, i) == IF i > Len(x) THEN 0
                    ELSE IF x[i] < y[i] THEN -1
                    ELSE IF x[i] > y[i] THEN 1
                    ELSE CmpFrom(x, y, i + 1)

AddStep(p, s) == [c |-> (s + p.c) \div 10, d |-> <<(s + p.c) % 10>> \o p.d]

RECURSIVE AddFrom(_, _, _)
AddFrom(x, y, i) == IF i > Len(x) THEN [c |-> 0, d |-> <<>>]
                    ELSE AddStep(AddFrom(x, y, i + 1), x[i] + y[i])

\* x + y for digit strings of one length
AddDigs(x, y) == IncOut(AddFrom(x, y, 1))

SubStep(p, s) == IF s - p.c < 0 THEN [c |-> 1, d |-> <<s - p.c + 10>> \o p.d]
                 ELSE [c |-> 0, d |-> <<s - p.c>> \o p.d]

RECURSIVE SubFrom(_, _, _)
SubFrom(x, y, i) == IF i > Len(x) THEN [c |-> 0, d |-> <<>>]
                    ELSE SubStep(SubFrom(x, y, i + 1), x[i] - y[i])

\* x - y for digit strings of one length, x >= y
SubDigs(x, y) == SubFrom(x, y, 1).d

MulStep(p, s) == [c |-> (s + p.c) \div 10, d |-> <<(s + p.c) % 10>> \o p.d]

RECURSIVE MulFrom(_, _, _)
MulFrom(x, m, i) == IF i > Len(x) THEN [c |-> 0, d |-> <<>>]
                    ELSE MulStep(MulFrom(x, m, i + 1), x[i] * m)

MulOut(p) == IF p.c = 0 THEN p.d ELSE NatDigs(p.c) \o p.d

\* the digit string x times the small natural m
MulDigs(x, m) == MulOut(MulFrom(x, m, 1))

DivStep(p, xi, m) == [q |-> Append(p.q, (p.r * 10 + xi) \div m), r |-> (p.r * 10 + xi) % m]

RECURSIVE DivUpTo(_, _, _)
\* quotient digits and remainder of the first i digits of x divided by the small natural m
DivUpTo(x, m, i) == IF i = 0 THEN [q |-> <<>>, r |-> 0]
                    ELSE DivStep(DivUpTo(x, m, i - 1), x[i], m)

\* the magnitudes of a and b as digit strings of one length over one exponent
AlignedOf(da, db, n) == [a |-> PadLeft(da, n), b |-> PadLeft(db, n)]
AlignedAt(a, b, e) ==
    AlignedOf(Shift(a.digs, a.exp, e), Shift(b.digs, b.exp, e),
              Max2(Len(a.digs) + (a.exp - e), Len(b.digs) + (b.exp - e)))
Aligned(a, b) ==
    IF a.digs = <<>> THEN AlignedAt([a EXCEPT !.exp = b.exp], b, b.exp)
    ELSE IF b.digs = <<>> THEN AlignedAt(a, [b EXCEPT !.exp = a.exp], a.exp)
    ELSE AlignedAt(a, b, Min2(a.exp, b.exp))
AlignedExp(a, b) ==
    IF a.digs = <<>> THEN b.exp ELSE IF b.digs = <<>> THEN a.exp ELSE Min2(a.exp, b.exp)

CmpMagOf(p) == CmpFrom(p.a, p.b, 1)

\* Decimal comparison: -1, 0, 1
DecCmp(a, b) ==
    IF a.neg # b.neg THEN (IF a.neg THEN -1 ELSE 1)
    ELSE IF a.neg THEN -CmpMagOf(Aligned(a, b)) ELSE CmpMagOf(Aligned(a, b))

DecGt(a, b) == DecCmp(a, b) = 1
DecMin(a, b) == IF DecCmp(b, a) = -1 THEN b ELSE a
DecMax(a, b) == IF DecCmp(b, a) = 1 THEN b ELSE a

DecNeg(a) == IF a.digs = <<>> THEN a ELSE [a EXCEPT !.neg = ~a.neg]

AddOf(a, b, p, e, c) ==
    IF a.neg = b.neg THEN DecRound(a.neg, StripLead(AddDigs(p.a, p.b)), e, FALSE)
    ELSE IF c = 0 THEN DecZero
    ELSE IF c = 1 THEN DecRound(a.neg, StripLead(SubDigs(p.a, p.b)), e, FALSE)
    ELSE DecRound(b.neg, StripLead(SubDigs(p.b, p.a)), e, FALSE)

AddAligned(a, b, p, e) == AddOf(a, b, p, e, CmpFrom(p.a, p.b, 1))

\* Decimal.__add__ and Decimal.__sub__: the exact result, rounded by the context
DecAdd(a, b) == AddAligned(a, b, Aligned(a, b), AlignedExp(a, b))
DecSub(a, b) == DecAdd(a, DecNeg(b))

\* Decimal.__mul__, for a factor b whose coefficient is a small natural
DecMul(a, b) ==
    IF a.digs = <<>> \/ b.digs = <<>> THEN DecZero
    ELSE DecRound(a.neg # b.neg, MulDigs(a.digs, DigsNat(b.digs, Len(b.digs))),
                  a.exp + b.exp, FALSE)

DivOf(neg, p, e) == DecRound(neg, StripLead(p.q), e, p.r # 0)

DivPadded(a, b, pad) ==
    DivOf(a.neg # b.neg,
          DivUpTo(a.digs \o Zeros(pad), DigsNat(b.digs, Len(b.digs)), Len(a.digs) + pad),
          a.exp - pad - b.exp)

\* Decimal.__truediv__, for a divisor b whose coefficient is a small natural: enough
\* quotient digits are produced for the context's rounding to see the digit after
\* the last kept one, the remainder being the sticky rest
DecDiv(a, b) ==
    IF a.digs = <<>> THEN DecZero
    ELSE DivPadded(a, b, Max2(0, DecPrec + 1 + Len(b.digs) - Len(a.digs)))

\* round(a, 2): Decimal.__round__ quantizes to two places with the context's
\* rounding, which is ROUND_HALF_EVEN
RoundAt(a, n) ==
    IF n < 0 THEN DecZero
    ELSE DecNorm(a.neg, RoundKeep(a.digs, n, FALSE), -2)
DecRound2(a) == IF a.exp >= -2 THEN a ELSE RoundAt(a, Len(a.digs) + a.exp + 2)

\* float(d) of a Decimal of at most two places: the double nearest to a number of
\* pence, which is written here as that (signed) number of pence
PenceOf(a, n) == IF a.neg THEN -n ELSE n
Float(a) == IF a.digs = <<>> THEN 0
            ELSE PenceOf(a, DigsNat(Shift(a.digs, a.exp, -2), Len(a.digs) + a.exp + 2))

\* ------------------------------------------------------------------------
\* Rate tables (module-level dictionaries of calc.py)
\* ------------------------------------------------------------------------

TAX_RATES == [basic_rate |-> Dec(20, -2), higher_rate |-> Dec(40, -2), additional_rate |-> Dec(45, -2)]

\* the bands of an earlier tax year left in the table
TAX_BANDS_2020 == [personal_allowance |-> Dec(12500, 0), basic_rate_limit |-> Dec(50000, 0), higher_rate_limit |-> Dec(150000, 0), blind_person_allowance |-> Dec(2870, 0), marriage_allowance |-> Dec(1260, 0)]

TAX_BANDS == [personal_allowance |-> Dec(12570, 0), basic_rate_limit |-> Dec(50270, 0), higher_rate_limit |-> Dec(125140, 0), blind_person_allowance |-> Dec(2870, 0), marriage_allowance |-> Dec(1260, 0)]

NI_RATES == [employee_rate |-> Dec(12, -2), employee_higher_rate |-> Dec(2, -2), employer_rate |-> Dec(138, -3)]

NI_THRESHOLDS == [primary_threshold |-> Dec(12570, 0), upper_earnings_limit |-> Dec(50270, 0), employer_threshold |-> Dec(9100, 0), secondary_threshold |-> Dec(9100, 0)]

STUDENT_LOAN_THRESHOLDS == [plan_1 |-> Dec(22015, 0), plan_2 |-> Dec(27295, 0), plan_4 |-> Dec(27660, 0), plan_5 |-> Dec(25000, 0)]

STUDENT_LOAN_RATES == [plan_1 |-> Dec(9, -2), plan_2 |-> Dec(9, -2), plan_4 |-> Dec(9, -2), plan_5 |-> Dec(9, -2)]

SchemeNames == {"auto_enrolment", "nest", "peoples_pension", "smart_pension", "aviva_workplace", "royal_london", "scottish_widows", "legal_general", "aegon", "standard_life", "none"}

HMRC_PENSION_SCHEMES ==
    [s \in SchemeNames |->
        IF s = "none" THEN [employee_rate |-> Dec(0, -2), employer_rate |-> Dec(0, -2)]
        ELSE [employee_rate |-> Dec(5, -2), employer_rate |-> Dec(3, -2)]]

\* ------------------------------------------------------------------------
\* Values handed to the engine
\* ------------------------------------------------------------------------

\* A Python float that holds an amount is written as the integer number of its unit:
\* employee.salary in pence, the pay components and other_deductions in tenths of a
\* penny, a contribution rate in thousandths.  Decimal(str(x)) parses the shortest
\* decimal that prints x, which is that integer scaled by its unit.
SalaryExp == -2
PayExp == -3
RateExp == -3

\* tax codes are strings, written as their characters
BR == <<"B", "R">>
D0 == <<"D", "0">>
D1 == <<"D", "1">>
NT == <<"N", "T">>
Code1257L == <<"1", "2", "5", "7", "L">>
CodeS1257L == <<"S", "1", "2", "5", "7", "L">>

\* getattr(obj, name, default) and dict.get(key, default)
GetAttr(obj, name, default) == IF name \in DOMAIN obj THEN obj[name] ELSE default
DictGet(d, key, default) == IF key \in DOMAIN d THEN d[key] ELSE default

\* None, for an optional number, is the empty tuple; a number x is <<x>>
None == <<>>
Twelve == Dec(12, 0)

\* ------------------------------------------------------------------------
\* Core payroll calculation functions
\* ------------------------------------------------------------------------

\* BandedTax with each band's tax assigned to annual_tax instead of added to it
BandedTaxOverwriting(annual_taxable_income, personal_allowance) ==
    LET basic_width == DecSub(TAX_BANDS.basic_rate_limit, personal_allowance)
        additional_from == DecSub(TAX_BANDS.higher_rate_limit, personal_allowance)
        basic_rate_taxable == DecMin(annual_taxable_income, basic_width)
        tax_basic ==
            IF DecGt(basic_rate_taxable, DecZero)
            THEN DecMul(basic_rate_taxable, TAX_RATES.basic_rate)
            ELSE DecZero
        higher_rate_taxable ==
            DecMin(DecSub(annual_taxable_income, basic_width),
                   DecSub(TAX_BANDS.higher_rate_limit, TAX_BANDS.basic_rate_limit))
        tax_higher ==
            IF DecGt(annual_taxable_income, basic_width) /\ DecGt(higher_rate_taxable, DecZero)
            THEN DecMul(higher_rate_taxable, TAX_RATES.higher_rate)
            ELSE tax_basic
        additional_rate_taxable == DecSub(annual_taxable_income, additional_from)
    IN IF DecGt(annual_taxable_income, additional_from)
       THEN DecMul(additional_rate_taxable, TAX_RATES.additional_rate)
       ELSE tax_higher

\* BandedTax with the higher-rate band measured from the personal allowance instead
\* of from the basic-rate limit
BandedTaxWideHigherBand(annual_taxable_income, personal_allowance) ==
    LET basic_width == DecSub(TAX_BANDS.basic_rate_limit, personal_allowance)
        additional_from == DecSub(TAX_BANDS.higher_rate_limit, personal_allowance)
        basic_rate_taxable == DecMin(annual_taxable_income, basic_width)
        tax_basic ==
            IF DecGt(basic_rate_taxable, DecZero)
            THEN DecMul(basic_rate_taxable, TAX_RATES.basic_rate)
            ELSE DecZero
        higher_rate_taxable ==
            DecMin(DecSub(annual_taxable_income, basic_width),
                   DecSub(TAX_BANDS.higher_rate_limit, personal_allowance))
        tax_higher ==
            IF DecGt(annual_taxable_income, basic_width) /\ DecGt(higher_rate_taxable, DecZero)
            THEN DecAdd(tax_basic, DecMul(higher_rate_taxable, TAX_RATES.higher_rate))
            ELSE tax_basic
        additional_rate_taxable == DecSub(annual_taxable_income, additional_from)
    IN IF DecGt(annual_taxable_income, additional_from)
       THEN DecAdd(tax_higher, DecMul(additional_rate_taxable, TAX_RATES.additional_rate))
       ELSE tax_higher

\* the annual tax of the three bands (the body of calculate_paye_tax after the
\* special codes)
BandedTax(annual_taxable_income, personal_allowance) ==
    LET basic_width == DecSub(TAX_BANDS.basic_rate_limit, personal_allowance)
        higher_from == DecSub(TAX_BANDS.basic_rate_limit, personal_allowance)
        additional_from == DecSub(TAX_BANDS.higher_rate_limit, personal_allowance)
        basic_rate_taxable == DecMin(annual_taxable_income, basic_width)
        tax_basic ==
            IF DecGt(basic_rate_taxable, DecZero)
            THEN DecAdd(DecZero, DecMul(basic_rate_taxable, TAX_RATES.basic_rate))
            ELSE DecZero
        higher_rate_taxable ==
            DecMin(DecSub(annual_taxable_income, higher_from),
                   DecSub(TAX_BANDS.higher_rate_limit, TAX_BANDS.basic_rate_limit))
        tax_higher ==
            IF DecGt(annual_taxable_income, higher_from) /\ DecGt(higher_rate_taxable, DecZero)
            THEN DecAdd(tax_basic, DecMul(higher_rate_taxable, TAX_RATES.higher_rate))
            ELSE tax_basic
        additional_rate_taxable == DecSub(annual_taxable_income, additional_from)
        tax_additional ==
            IF DecGt(annual_taxable_income, additional_from) /\ DecGt(additional_rate_taxable, DecZero)
            THEN DecAdd(tax_higher, DecMul(additional_rate_taxable, TAX_RATES.additional_rate))
            ELSE tax_higher
    IN tax_additional

\* the standard calculation with the personal allowance: a twelfth of the annual tax
PayeOfAnnual(annual_salary) ==
    LET personal_allowance == TAX_BANDS.personal_allowance
        annual_taxable_income == DecMax(DecZero, DecSub(annual_salary, personal_allowance))
        annual_tax == BandedTax(annual_taxable_income, personal_allowance)
        monthly_tax == DecDiv(annual_tax, Twelve)
    IN monthly_tax

\* calculate_paye_tax with the flat rates charged on a twelfth of the annual salary
\* instead of on the period's gross pay
calculate_paye_tax_on_salary(employee, annual_salary, monthly_gross) ==
    LET tax_code == GetAttr(employee, "tax_code", Code1257L)
    IN IF tax_code = BR THEN DecMul(DecDiv(annual_salary, Twelve), TAX_RATES.basic_rate)
       ELSE IF tax_code = D0 THEN DecMul(DecDiv(annual_salary, Twelve), TAX_RATES.higher_rate)
       ELSE IF tax_code = D1 THEN DecMul(DecDiv(annual_salary, Twelve), TAX_RATES.additional_rate)
       ELSE IF tax_code = NT THEN DecZero
       ELSE PayeOfAnnual(annual_salary)

\* calculate_paye_tax: the monthly PAYE charge, unrounded
\* the same with the Scottish spellings of the flat-rate codes taken as flat-rate too
calculate_paye_tax_scottish(employee, annual_salary, monthly_gross) ==
    LET tax_code == GetAttr(employee, "tax_code", Code1257L)
    IN IF tax_code \in {BR, <<"S">> \o BR} THEN DecMul(monthly_gross, TAX_RATES.basic_rate)
       ELSE IF tax_code \in {D0, <<"S">> \o D0} THEN DecMul(monthly_gross, TAX_RATES.higher_rate)
       ELSE IF tax_code \in {D1, <<"S">> \o D1}
       THEN DecMul(monthly_gross, TAX_RATES.additional_rate)
       ELSE IF tax_code \in {NT, <<"S">> \o NT} THEN DecZero
       ELSE PayeOfAnnual(annual_salary)

calculate_paye_tax(employee, annual_salary, monthly_gross) ==
    LET tax_code == GetAttr(employee, "tax_code", Code1257L)
    IN IF tax_code = BR THEN DecMul(monthly_gross, TAX_RATES.basic_rate)
       ELSE IF tax_code = D0 THEN DecMul(monthly_gross, TAX_RATES.higher_rate)
       ELSE IF tax_code = D1 THEN DecMul(monthly_gross, TAX_RATES.additional_rate)
       ELSE IF tax_code = NT THEN DecZero
       ELSE PayeOfAnnual(annual_salary)

\* calculate_ni_contribution with the 2% slice charged in place of the 12% slice
\* once the salary passes the upper earnings limit
NiOfSalaryAlternative(annual_salary) ==
    LET monthly_salary == DecDiv(annual_salary, Twelve)
        primary_threshold_monthly == DecDiv(NI_THRESHOLDS.primary_threshold, Twelve)
        upper_earnings_limit_monthly == DecDiv(NI_THRESHOLDS.upper_earnings_limit, Twelve)
        basic_ni_taxable ==
            DecMin(DecSub(monthly_salary, primary_threshold_monthly),
                   DecSub(upper_earnings_limit_monthly, primary_threshold_monthly))
        ni_basic ==
            IF DecGt(basic_ni_taxable, DecZero)
            THEN DecMul(basic_ni_taxable, NI_RATES.employee_rate)
            ELSE DecZero
        higher_ni_taxable == DecSub(monthly_salary, upper_earnings_limit_monthly)
    IN IF DecGt(monthly_salary, upper_earnings_limit_monthly)
       THEN DecMul(higher_ni_taxable, NI_RATES.employee_higher_rate)
       ELSE IF DecGt(monthly_salary, primary_threshold_monthly) THEN ni_basic ELSE DecZero

\* the body of calculate_ni_contribution, which reads the annual salary only
NiOfSalary(annual_salary) ==
    LET monthly_salary == DecDiv(annual_salary, Twelve)
        primary_threshold_monthly == DecDiv(NI_THRESHOLDS.primary_threshold, Twelve)
        upper_earnings_limit_monthly == DecDiv(NI_THRESHOLDS.upper_earnings_limit, Twelve)
        basic_ni_taxable ==
            DecMin(DecSub(monthly_salary, primary_threshold_monthly),
                   DecSub(upper_earnings_limit_monthly, primary_threshold_monthly))
        ni_basic ==
            IF DecGt(basic_ni_taxable, DecZero)
            THEN DecAdd(DecZero, DecMul(basic_ni_taxable, NI_RATES.employee_rate))
            ELSE DecZero
        higher_ni_taxable == DecSub(monthly_salary, upper_earnings_limit_monthly)
        ni_higher ==
            IF DecGt(monthly_salary, upper_earnings_limit_monthly)
            THEN DecAdd(ni_basic, DecMul(higher_ni_taxable, NI_RATES.employee_higher_rate))
            ELSE ni_basic
    IN IF DecGt(monthly_salary, primary_threshold_monthly) THEN ni_higher ELSE DecZero

\* calculate_ni_contribution charging no NI under the no-tax code
calculate_ni_contribution_exempt_nt(employee, annual_salary, monthly_gross) ==
    IF GetAttr(employee, "tax_code", Code1257L) = NT THEN DecZero
    ELSE NiOfSalary(annual_salary)

\* calculate_ni_contribution: the employee's monthly NI, unrounded
\* the same on twelve times the gross pay of the period
calculate_ni_contribution_on_gross(employee, annual_salary, monthly_gross) ==
    NiOfSalary(DecMul(monthly_gross, Twelve))

calculate_ni_contribution(employee, annual_salary, monthly_gross) == NiOfSalary(annual_salary)

\* calculate_pension_contribution taking the employer's share from the employee too
calculate_pension_contribution_both_shares(employee, gross_pay) ==
    LET pension_scheme == GetAttr(employee, "pension_scheme", "auto_enrolment")
        custom_rate == GetAttr(employee, "pension_contribution", None)
        custom_employer_rate == GetAttr(employee, "employer_pension_contribution", None)
        pension_rate ==
            IF custom_rate # None THEN Dec(custom_rate[1], RateExp)
            ELSE IF pension_scheme \in DOMAIN HMRC_PENSION_SCHEMES
                 THEN HMRC_PENSION_SCHEMES[pension_scheme].employee_rate
                 ELSE Dec(5, -2)
        employer_rate ==
            IF custom_employer_rate # None THEN Dec(custom_employer_rate[1], RateExp)
            ELSE IF pension_scheme \in DOMAIN HMRC_PENSION_SCHEMES
                 THEN HMRC_PENSION_SCHEMES[pension_scheme].employer_rate
                 ELSE Dec(3, -2)
    IN IF pension_scheme = "none" THEN DecZero
       ELSE DecAdd(DecMul(gross_pay, pension_rate), DecMul(gross_pay, employer_rate))

\* calculate_pension_contribution charging the scheme's default rate whatever
\* custom rate the employee carries
calculate_pension_contribution_scheme_rate(employee, gross_pay) ==
    LET pension_scheme == GetAttr(employee, "pension_scheme", "auto_enrolment")
        pension_rate ==
            IF pension_scheme \in DOMAIN HMRC_PENSION_SCHEMES
            THEN HMRC_PENSION_SCHEMES[pension_scheme].employee_rate
            ELSE Dec(5, -2)
    IN IF pension_scheme = "none" THEN DecZero ELSE DecMul(gross_pay, pension_rate)

\* calculate_pension_contribution: the employee's pension contribution, unrounded
calculate_pension_contribution(employee, gross_pay) ==
    LET pension_scheme == GetAttr(employee, "pension_scheme", "auto_enrolment")
        custom_rate == GetAttr(employee, "pension_contribution", None)
        pension_rate ==
            IF custom_rate # None THEN Dec(custom_rate[1], RateExp)
            ELSE IF pension_scheme \in DOMAIN HMRC_PENSION_SCHEMES
                 THEN HMRC_PENSION_SCHEMES[pension_scheme].employee_rate
                 ELSE Dec(5, -2)
    IN IF pension_scheme = "none" THEN DecZero ELSE DecMul(gross_pay, pension_rate)

\* calculate_student_loan charging a twelfth of the annual salary instead of the
\* period's gross pay
calculate_student_loan_on_salary(employee, annual_salary, monthly_gross) ==
    LET student_loan_plan == GetAttr(employee, "student_loan_plan", "")
        threshold ==
            IF student_loan_plan \in DOMAIN STUDENT_LOAN_THRESHOLDS
            THEN STUDENT_LOAN_THRESHOLDS[student_loan_plan]
            ELSE STUDENT_LOAN_THRESHOLDS.plan_2
        rate ==
            IF student_loan_plan \in DOMAIN STUDENT_LOAN_RATES
            THEN STUDENT_LOAN_RATES[student_loan_plan]
            ELSE STUDENT_LOAN_RATES.plan_2
        monthly_threshold == DecDiv(threshold, Twelve)
        monthly_salary == DecDiv(annual_salary, Twelve)
    IN IF student_loan_plan = "" \/ student_loan_plan = "none" THEN DecZero
       ELSE IF DecGt(monthly_salary, monthly_threshold)
            THEN DecMul(DecSub(monthly_salary, monthly_threshold), rate)
            ELSE DecZero

\* calculate_student_loan: the month's student-loan repayment, unrounded
calculate_student_loan(employee, annual_salary, monthly_gross) ==
    LET student_loan_plan == GetAttr(employee, "student_loan_plan", "")
        threshold ==
            IF student_loan_plan \in DOMAIN STUDENT_LOAN_THRESHOLDS
            THEN STUDENT_LOAN_THRESHOLDS[student_loan_plan]
            ELSE STUDENT_LOAN_THRESHOLDS.plan_2
        rate ==
            IF student_loan_plan \in DOMAIN STUDENT_LOAN_RATES
            THEN STUDENT_LOAN_RATES[student_loan_plan]
            ELSE STUDENT_LOAN_RATES.plan_2
        monthly_threshold == DecDiv(threshold, Twelve)
    IN IF student_loan_plan = "" \/ student_loan_plan = "none" THEN DecZero
       ELSE IF DecGt(monthly_gross, monthly_threshold)
            THEN DecMul(DecSub(monthly_gross, monthly_threshold), rate)
            ELSE DecZero

\* calculate_employer_ni charging nothing above the upper earnings limit
calculate_employer_ni_capped(employee, annual_salary, monthly_gross) ==
    LET monthly_salary ==
            DecMin(DecDiv(annual_salary, Twelve),
                   DecDiv(NI_THRESHOLDS.upper_earnings_limit, Twelve))
        employer_threshold_monthly == DecDiv(NI_THRESHOLDS.employer_threshold, Twelve)
    IN IF DecGt(monthly_salary, employer_threshold_monthly)
       THEN DecMul(DecSub(monthly_salary, employer_threshold_monthly), NI_RATES.employer_rate)
       ELSE DecZero

\* calculate_employer_ni: the employer's monthly NI, unrounded
calculate_employer_ni(employee, annual_salary, monthly_gross) ==
    LET monthly_salary == DecDiv(annual_salary, Twelve)
        employer_threshold_monthly == DecDiv(NI_THRESHOLDS.employer_threshold, Twelve)
    IN IF DecGt(monthly_salary, employer_threshold_monthly)
       THEN DecMul(DecSub(monthly_salary, employer_threshold_monthly), NI_RATES.employer_rate)
       ELSE DecZero

\* calculate_employer_pension applying a custom employer rate before it looks at
\* the scheme
calculate_employer_pension_override_first(employee, gross_pay) ==
    LET pension_scheme == GetAttr(employee, "pension_scheme", "auto_enrolment")
        custom_employer_rate == GetAttr(employee, "employer_pension_contribution", None)
    IN IF custom_employer_rate # None
       THEN DecMul(gross_pay, Dec(custom_employer_rate[1], RateExp))
       ELSE IF pension_scheme = "none" THEN DecZero
       ELSE IF pension_scheme \in DOMAIN HMRC_PENSION_SCHEMES
            THEN DecMul(gross_pay, HMRC_PENSION_SCHEMES[pension_scheme].employer_rate)
            ELSE DecMul(gross_pay, Dec(3, -2))

\* calculate_employer_pension: the employer's pension contribution, unrounded
calculate_employer_pension(employee, gross_pay) ==
    LET pension_scheme == GetAttr(employee, "pension_scheme", "auto_enrolment")
        custom_employer_rate == GetAttr(employee, "employer_pension_contribution", None)
        employer_rate ==
            IF custom_employer_rate # None THEN Dec(custom_employer_rate[1], RateExp)
            ELSE IF pension_scheme \in DOMAIN HMRC_PENSION_SCHEMES
                 THEN HMRC_PENSION_SCHEMES[pension_scheme].employer_rate
                 ELSE Dec(3, -2)
    IN IF pension_scheme = "none" THEN DecZero ELSE DecMul(gross_pay, employer_rate)

\* the gross pay with the bonus left out
SumPayNoBonus(basic_pay, overtime_pay, bonus_pay, other_pay) ==
    DecAdd(DecAdd(basic_pay, overtime_pay), other_pay)

\* gross_pay = basic_pay + overtime_pay + bonus_pay + other_pay
SumPay(basic_pay, overtime_pay, bonus_pay, other_pay) ==
    DecAdd(DecAdd(DecAdd(basic_pay, overtime_pay), bonus_pay), other_pay)

\* the body of calculate_payroll up to its return statement: the Decimal amounts
payroll_amounts(employee, payslip_data) ==
    LET basic_pay == Dec(DictGet(payslip_data, "basic_pay", 0), PayExp)
        overtime_pay == Dec(DictGet(payslip_data, "overtime_pay", 0), PayExp)
        bonus_pay == Dec(DictGet(payslip_data, "bonus_pay", 0), PayExp)
        other_pay == Dec(DictGet(payslip_data, "other_pay", 0), PayExp)
        gross_pay == SumPay(basic_pay, overtime_pay, bonus_pay, other_pay)
        annual_salary == Dec(employee.salary, SalaryExp)
        paye_tax == calculate_paye_tax(employee, annual_salary, gross_pay)
        ni_contribution == calculate_ni_contribution(employee, annual_salary, gross_pay)
        pension_contribution == calculate_pension_contribution(employee, gross_pay)
        student_loan == calculate_student_loan(employee, annual_salary, gross_pay)
        other_deductions == Dec(DictGet(payslip_data, "other_deductions", 0), PayExp)
        net_pay ==
            DecSub(DecSub(DecSub(DecSub(DecSub(gross_pay, paye_tax), ni_contribution),
                                 pension_contribution), student_loan), other_deductions)
        employer_ni == calculate_employer_ni(employee, annual_salary, gross_pay)
        employer_pension == calculate_employer_pension(employee, gross_pay)
        total_employer_cost == DecAdd(DecAdd(gross_pay, employer_ni), employer_pension)
    IN [gross_pay |-> gross_pay,
        basic_pay |-> basic_pay,
        overtime_pay |-> overtime_pay,
        bonus_pay |-> bonus_pay,
        other_pay |-> other_pay,
        paye_tax |-> paye_tax,
        national_insurance |-> ni_contribution,
        pension_contribution |-> pension_contribution,
        student_loan |-> student_loan,
        other_deductions |-> other_deductions,
        net_pay |-> net_pay,
        employer_ni |-> employer_ni,
        employer_pension |-> employer_pension,
        total_employer_cost |-> total_employer_cost]

\* the field rounded up to the next penny whenever anything is dropped
CeilKeep(d, n) == IF TrailIdx(d, Len(d)) > n THEN IncDigs(SubSeq(d, 1, n)) ELSE SubSeq(d, 1, n)
DecCeil2(a) ==
    IF a.exp >= -2 THEN a
    ELSE IF a.neg THEN DecNorm(TRUE, SubSeq(a.digs, 1, Max2(0, Len(a.digs) + a.exp + 2)), -2)
    ELSE DecNorm(FALSE, CeilKeep(a.digs, Max2(0, Len(a.digs) + a.exp + 2)), -2)
MoneyCeil(x) == Float(DecCeil2(x))

\* the amount a field of the returned dictionary holds: float(round(x, 2))
Money(x) == Float(DecRound2(x))

RoundedFields(amounts) == [f \in DOMAIN amounts |-> Money(amounts[f])]

\* calculate_payroll: the dictionary it returns, every amount in pence
calculate_payroll(employee, payslip_data) ==
    RoundedFields(payroll_amounts(employee, payslip_data))

\* ------------------------------------------------------------------------
\* Validation functions
\* ------------------------------------------------------------------------

DigitChars == {"0", "1", "2", "3", "4", "5", "6", "7", "8", "9"}

\* A string is the sequence of its characters. A character outside ASCII is written
\* by its code point: U+00C9 and U+00E9 are the capital and the small E with acute
\* accent, U+00B2 is the superscript two.
UpperLetters ==
    <<"A", "B", "C", "D", "E", "F", "G", "H", "I", "J", "K", "L", "M",
      "N", "O", "P", "Q", "R", "S", "T", "U", "V", "W", "X", "Y", "Z">>
LowerLetters ==
    <<"a", "b", "c", "d", "e", "f", "g", "h", "i", "j", "k", "l", "m",
      "n", "o", "p", "q", "r", "s", "t", "u", "v", "w", "x", "y", "z">>
AsciiUpper == {UpperLetters[i] : i \in 1..Len(UpperLetters)}
AsciiLower == {LowerLetters[i] : i \in 1..Len(LowerLetters)}

\* the characters str.isalpha and str.isdigit accept, among those written here
IsAlphaChar(c) == c \in AsciiUpper \cup AsciiLower \cup {"U+00C9", "U+00E9"}
IsDigitChar(c) == c \in DigitChars \cup {"U+00B2"}

\* str.upper, character by character
UpperChar(c) ==
    IF c \in AsciiLower
    THEN UpperLetters[CHOOSE i \in 1..Len(LowerLetters) : LowerLetters[i] = c]
    ELSE IF c = "U+00E9" THEN "U+00C9"
    ELSE c
Upper(s) == [i \in 1..Len(s) |-> UpperChar(s[i])]

\* str.replace(' ', '')
IsNotSpace(c) == c # " "
RemoveSpaces(s) == SelectSeq(s, IsNotSpace)

\* str.isalpha
IsAlpha(s) == Len(s) > 0 /\ \A i \in 1..Len(s) : IsAlphaChar(s[i])

\* str.isdigit, str.startswith and str.endswith for a one-character argument
IsDigit(s) == Len(s) > 0 /\ \A i \in 1..Len(s) : IsDigitChar(s[i])
StartsWith(s, c) == Len(s) > 0 /\ s[1] = c
EndsWith(s, c) == Len(s) > 0 /\ s[Len(s)] = c

valid_codes ==
    {BR, D0, D1, NT, <<"S", "B", "R">>, <<"S", "D", "0">>, <<"S", "D", "1">>,
     <<"S", "N", "T">>, Code1257L, CodeS1257L, <<"0", "T">>, <<"S", "0", "T">>}

\* validate_tax_code
validate_tax_code(tax_code) ==
    IF tax_code = <<>> THEN FALSE
    ELSE IF tax_code \in valid_codes THEN TRUE
    ELSE IF EndsWith(tax_code, "L") /\ IsDigit(SubSeq(tax_code, 1, Len(tax_code) - 1)) THEN TRUE
    ELSE IF /\ StartsWith(tax_code, "S")
            /\ EndsWith(SubSeq(tax_code, 2, Len(tax_code)), "L")
            /\ IsDigit(SubSeq(tax_code, 2, Len(tax_code) - 1))
         THEN TRUE
    ELSE FALSE

invalid_prefixes ==
    {<<"B", "G">>, <<"G", "B">>, <<"N", "K">>, <<"K", "N">>, <<"T", "N">>, <<"N", "T">>,
     <<"Z", "Z">>}

\* validate_ni_number
validate_ni_number(ni_number) ==
    IF ni_number = <<>> THEN FALSE
    ELSE LET stripped == Upper(RemoveSpaces(ni_number))
         IN IF Len(stripped) # 9 THEN FALSE
            ELSE IF ~(/\ IsAlpha(SubSeq(stripped, 1, 2))
                      /\ IsDigit(SubSeq(stripped, 3, 8))
                      /\ IsAlpha(SubSeq(stripped, 9, 9)))
                 THEN FALSE
            ELSE IF SubSeq(stripped, 1, 2) \in invalid_prefixes THEN FALSE
            ELSE TRUE

\* validate_pension_scheme
validate_pension_scheme(scheme) == scheme \in DOMAIN HMRC_PENSION_SCHEMES

\* ------------------------------------------------------------------------
\* Utility functions
\* ------------------------------------------------------------------------

\* dict.setdefault(key, default) in the place of dict.get: an unknown key is stored
AfterSetDefault(d, key, default) ==
    IF key \in DOMAIN d THEN d
    ELSE [k \in DOMAIN d \cup {key} |-> IF k = key THEN default ELSE d[k]]

\* what dict.get(key, default) leaves of the dictionary it reads: all of it
AfterGet(d, key, default) == d

\* get_pension_scheme_info and get_all_pension_schemes, reading the table as it
\* stands; what they return is the table's own entry, or the table itself
get_pension_scheme_info(schemes, scheme) == DictGet(schemes, scheme, schemes["auto_enrolment"])
get_all_pension_schemes(schemes) == schemes

\* ------------------------------------------------------------------------
\* The engine under call: one request, drawn from the inputs below
\* ------------------------------------------------------------------------

VARIABLES employee, payslip_data, result

\* tables: the module-level rate dictionaries as they stand; calls: the frames of the
\* calculate_payroll coroutines in flight; lookup: the last validator, calculator or
\* scheme lookup called on its own, with its answer
VARIABLES tables, calls, lookup

\* db: the rows the database holds, committed; session: the rows the request in
\* progress has added to its SQLAlchemy session and not yet committed; run: the
\* router's request or background task in progress, and its response once it ends
VARIABLES db, session, run

vars == <<employee, payslip_data, result, tables, calls, lookup, db, session, run>>

\* the rate tables as the module's import leaves them
RateTables ==
    [TAX_RATES |-> TAX_RATES, TAX_BANDS |-> TAX_BANDS, NI_RATES |-> NI_RATES,
     NI_THRESHOLDS |-> NI_THRESHOLDS, STUDENT_LOAN_THRESHOLDS |-> STUDENT_LOAN_THRESHOLDS,
     STUDENT_LOAN_RATES |-> STUDENT_LOAN_RATES, HMRC_PENSION_SCHEMES |-> HMRC_PENSION_SCHEMES]

NoCalls == <<>>
NoLookup == [op |-> "none"]
NoDatabase == [status |-> "closed"]
NoSession == <<>>
NoRun == [op |-> "none", pc |-> "done"]

\* the salaries drawn include the multiples of 50,000.00 up to this many
MaxSalarySteps == 3

\* annual salaries, in pence: a grid, the thresholds of the rate tables and their
\* neighbours, a salary under every threshold and a negative one
Salaries ==
    {k * 5000000 : k \in 1..MaxSalarySteps}
        \cup {-100000, 900000, 910000, 1257000, 1257001, 1257031, 5027000, 6500000, 12514000}

CodeXYZ == <<"X", "Y", "Z">>
TaxCodes == {BR, D0, D1, NT, Code1257L, CodeS1257L, CodeXYZ}

\* pension scheme and custom employee rate (thousandths), as the employee carries them
PensionChoices ==
    {<<"auto_enrolment", None>>, <<"none", <<100>>>>, <<"bogus_scheme", None>>, <<"nest", <<1500>>>>}

\* student-loan plan; an employee object may carry no such attribute at all
PlanChoices == {"", "plan_1", "plan_9"}

\* custom employee rates tried with every scheme of the table: none, 0% and 8%
SchemeRates == {None, <<0>>, <<80>>}

\* custom employer pension rates (thousandths) an employee object may carry
EmployerRates == {0, 100}

Employees ==
    {[salary |-> s, tax_code |-> t, pension_scheme |-> p[1], pension_contribution |-> p[2]] :
        s \in Salaries, t \in TaxCodes, p \in PensionChoices}
    \cup
    {[salary |-> s, tax_code |-> t, pension_scheme |-> p[1], pension_contribution |-> p[2],
      student_loan_plan |-> l] :
        s \in Salaries, t \in TaxCodes, p \in PensionChoices, l \in PlanChoices \ {""}}
    \cup
    {[salary |-> s, tax_code |-> t, pension_scheme |-> p[1], pension_contribution |-> p[2],
      employer_pension_contribution |-> <<r>>] :
        s \in Salaries, t \in {BR, Code1257L}, p \in PensionChoices, r \in EmployerRates}
    \cup
    {[salary |-> 6500000, tax_code |-> BR, pension_scheme |-> n, pension_contribution |-> c] :
        n \in SchemeNames, c \in SchemeRates}

\* employees repaying a student loan under each plan of the rate table, or 'none'
LoanPlans == {"none", "plan_1", "plan_2", "plan_4", "plan_5"}
LoanEmployees ==
    {[salary |-> s, tax_code |-> BR, pension_scheme |-> "auto_enrolment",
      pension_contribution |-> None, student_loan_plan |-> l] :
        s \in Salaries, l \in LoanPlans}

\* pay components, in tenths of a penny
BasicPays == {1000100, 3000000, 5416670}
ExtraPays == {<<0, 0, 0>>, <<250250, 100100, 50000>>, <<250250, 100100, 5>>}
OtherDeductions == {9999990}

\* the callers of this repository pass no other_deductions; the engine reads it
Payslips ==
    {[basic_pay |-> b, overtime_pay |-> x[1], bonus_pay |-> x[2], other_pay |-> x[3]] :
        b \in BasicPays, x \in ExtraPays}
    \cup
    {[basic_pay |-> b, overtime_pay |-> 0, bonus_pay |-> 0, other_pay |-> 0,
      other_deductions |-> d] :
        b \in BasicPays, d \in OtherDeductions}

\* gross pay at and a penny over the monthly repayment thresholds of plan_4
\* (27,660 / 12 = 2,305.00) and plan_5 (25,000 / 12 = 2,083.33...)
LoanBasicPays == {2083330, 2083340, 2305000, 2305010}
LoanPayslips ==
    {[basic_pay |-> b, overtime_pay |-> 0, bonus_pay |-> 0, other_pay |-> 0] :
        b \in BasicPays \cup LoanBasicPays}

\* the calls made: an employee object and the pay period's dictionary
Requests == (Employees \X Payslips) \cup (LoanEmployees \X LoanPayslips)

NoResult == [status |-> "pending"]

Init ==
    /\ \E request \in Requests :
           /\ employee = request[1]
           /\ payslip_data = request[2]
    /\ result = NoResult
    /\ tables = RateTables
    /\ calls = NoCalls
    /\ lookup = NoLookup
    /\ db = NoDatabase
    /\ session = NoSession
    /\ run = NoRun

Returned(breakdown) == [status |-> "returned", value |-> breakdown]

\* a caller awaits calculate_payroll(employee, payslip_data)
Calculate ==
    /\ result = NoResult
    /\ result' = Returned(calculate_payroll(employee, payslip_data))
    /\ UNCHANGED <<employee, payslip_data, tables, calls, lookup, db, session, run>>

Next == Calculate

Spec == Init /\ [][Next]_vars

\* the parts of the request
IsReturned == result.status = "returned"

\* the request's pay components, in tenths of a penny, and their sum
PayOf(key) == DictGet(payslip_data, key, 0)
GrossMils == PayOf("basic_pay") + PayOf("overtime_pay") + PayOf("bonus_pay") + PayOf("other_pay")
RequestGross ==
    SumPay(Dec(PayOf("basic_pay"), PayExp), Dec(PayOf("overtime_pay"), PayExp),
           Dec(PayOf("bonus_pay"), PayExp), Dec(PayOf("other_pay"), PayExp))
RequestSalary == Dec(employee.salary, SalaryExp)
RequestTaxCode == GetAttr(employee, "tax_code", Code1257L)

\* ------------------------------------------------------------------------
\* Several calls of calculate_payroll in flight at once
\* ------------------------------------------------------------------------

\* The coroutine holds no await, so the event loop runs each call to its end; the
\* frames below are interleaved statement group by statement group all the same,
\* which covers every schedule a caller could get.

MaxCalls == 2
Callers == 1..MaxCalls

CallRequests ==
    {<<[salary |-> 6500000, tax_code |-> Code1257L, pension_scheme |-> "auto_enrolment",
        pension_contribution |-> None],
       [basic_pay |-> 5416670, overtime_pay |-> 0, bonus_pay |-> 0, other_pay |-> 0]>>,
     <<[salary |-> 900000, tax_code |-> BR, pension_scheme |-> "nest",
        pension_contribution |-> <<80>>, student_loan_plan |-> "plan_1"],
       [basic_pay |-> 3000000, overtime_pay |-> 250250, bonus_pay |-> 100100,
        other_pay |-> 50000]>>}

Absent == [status |-> "absent"]
IdleFrame == [pc |-> "idle"]
InFlight(frame) == frame.pc \notin {"idle", "returned"}

\* whether some other call is part-way through while call c takes a step
Overlaps(c) == \E d \in Callers \ {c} : InFlight(calls[d])

\* the employee kept in one module-level name that the first caller in flight sets
CallEmployeeOfFirst(frames, c) ==
    IF \E d \in Callers : d < c /\ InFlight(frames[d])
    THEN frames[CHOOSE d \in Callers : d < c /\ InFlight(frames[d])].employee
    ELSE frames[c].employee

\* the employee object and the pay dictionary a frame's parameters refer to
CallEmployee(frames, c) == frames[c].employee
CallPayslip(frames, c) == frames[c].payslip_data

CallsInit ==
    /\ employee = Absent
    /\ payslip_data = Absent
    /\ result = Absent
    /\ tables = RateTables
    /\ calls = [c \in Callers |-> IdleFrame]
    /\ lookup = NoLookup
    /\ db = NoDatabase
    /\ session = NoSession
    /\ run = NoRun

\* the frame of call c moves on to pc with the locals given added to its own
Advance(c, pc, locals) ==
    /\ calls' = [calls EXCEPT ![c] =
                    [@ EXCEPT !.pc = pc,
                              !.locals = locals @@ @,
                              !.overlapped = @ \/ Overlaps(c)]]
    /\ UNCHANGED <<employee, payslip_data, result, tables, lookup, db, session, run>>

\* a caller enters calculate_payroll(employee, payslip_data)
Begin(c) ==
    /\ ~InFlight(calls[c])
    /\ \E request \in CallRequests :
           calls' = [calls EXCEPT ![c] =
                        [pc |-> "pay", employee |-> request[1], payslip_data |-> request[2],
                         locals |-> <<>>, overlapped |-> Overlaps(c)]]
    /\ UNCHANGED <<employee, payslip_data, result, tables, lookup, db, session, run>>

\* the pay components and gross_pay
PayStep(c) ==
    /\ calls[c].pc = "pay"
    /\ LET basic_pay == Dec(DictGet(CallPayslip(calls, c), "basic_pay", 0), PayExp)
           overtime_pay == Dec(DictGet(CallPayslip(calls, c), "overtime_pay", 0), PayExp)
           bonus_pay == Dec(DictGet(CallPayslip(calls, c), "bonus_pay", 0), PayExp)
           other_pay == Dec(DictGet(CallPayslip(calls, c), "other_pay", 0), PayExp)
       IN Advance(c, "deductions",
                  [basic_pay |-> basic_pay, overtime_pay |-> overtime_pay,
                   bonus_pay |-> bonus_pay, other_pay |-> other_pay,
                   gross_pay |-> SumPay(basic_pay, overtime_pay, bonus_pay, other_pay)])

\* annual_salary and the five deductions
DeductStep(c) ==
    /\ calls[c].pc = "deductions"
    /\ LET callee == CallEmployee(calls, c)
           gross_pay == calls[c].locals.gross_pay
           annual_salary == Dec(callee.salary, SalaryExp)
       IN Advance(c, "net",
                  [annual_salary |-> annual_salary,
                   paye_tax |-> calculate_paye_tax(callee, annual_salary, gross_pay),
                   ni_contribution |-> calculate_ni_contribution(callee, annual_salary, gross_pay),
                   pension_contribution |-> calculate_pension_contribution(callee, gross_pay),
                   student_loan |-> calculate_student_loan(callee, annual_salary, gross_pay),
                   other_deductions |->
                       Dec(DictGet(CallPayslip(calls, c), "other_deductions", 0), PayExp)])

\* net_pay
NetStep(c) ==
    /\ calls[c].pc = "net"
    /\ LET l == calls[c].locals
       IN Advance(c, "costs",
                  [net_pay |->
                       DecSub(DecSub(DecSub(DecSub(DecSub(l.gross_pay, l.paye_tax),
                                                   l.ni_contribution),
                                            l.pension_contribution),
                                     l.student_loan),
                              l.other_deductions)])

\* the employer's costs
CostStep(c) ==
    /\ calls[c].pc = "costs"
    /\ LET callee == CallEmployee(calls, c)
           l == calls[c].locals
           employer_ni == calculate_employer_ni(callee, l.annual_salary, l.gross_pay)
           employer_pension == calculate_employer_pension(callee, l.gross_pay)
       IN Advance(c, "return",
                  [employer_ni |-> employer_ni, employer_pension |-> employer_pension,
                   total_employer_cost |->
                       DecAdd(DecAdd(l.gross_pay, employer_ni), employer_pension)])

\* the return statement: the caller is handed the rounded dictionary
ReturnStep(c) ==
    /\ calls[c].pc = "return"
    /\ LET l == calls[c].locals
       IN calls' = [calls EXCEPT ![c] =
                       [pc |-> "returned", employee |-> @.employee,
                        payslip_data |-> @.payslip_data,
                        overlapped |-> @.overlapped \/ Overlaps(c),
                        value |->
                            RoundedFields(
                                [gross_pay |-> l.gross_pay, basic_pay |-> l.basic_pay,
                                 overtime_pay |-> l.overtime_pay, bonus_pay |-> l.bonus_pay,
                                 other_pay |-> l.other_pay, paye_tax |-> l.paye_tax,
                                 national_insurance |-> l.ni_contribution,
                                 pension_contribution |-> l.pension_contribution,
                                 student_loan |-> l.student_loan,
                                 other_deductions |-> l.other_deductions,
                                 net_pay |-> l.net_pay, employer_ni |-> l.employer_ni,
                                 employer_pension |-> l.employer_pension,
                                 total_employer_cost |-> l.total_employer_cost])]]
    /\ UNCHANGED <<employee, payslip_data, result, tables, lookup, db, session, run>>

CallsNext ==
    \E c \in Callers :
        \/ Begin(c)
        \/ PayStep(c)
        \/ DeductStep(c)
        \/ NetStep(c)
        \/ CostStep(c)
        \/ ReturnStep(c)

SpecCalls == CallsInit /\ [][CallsNext]_vars

\* ------------------------------------------------------------------------
\* The module's functions called one after another, in any order
\* ------------------------------------------------------------------------

\* National Insurance numbers tried: a prefix, six places and a suffix, well formed
\* or not, with spaces, small letters and characters outside ASCII among them
NiPrefixes ==
    {<<"A", "B">>, <<"a", "b">>, <<"A", " ", "B">>, <<"B", "G">>, <<"G", "B">>, <<"g", "b">>,
     <<"N", "K">>, <<"K", "N">>, <<"T", "N">>, <<"N", "T">>, <<"Z", "Z">>,
     <<"U+00C9", "B">>, <<"U+00E9", "b">>, <<"A", "1">>, <<"A">>, <<"A", "B", "C">>}
NiMiddles ==
    {<<"1", "2", "3", "4", "5", "6">>, <<"1", "2", "3", "4", "5">>,
     <<"1", "2", "3", "4", "5", "6", "7">>, <<"1", "2", " ", "3", "4", " ", "5", "6">>,
     <<"1", "2", "3", "4", "5", "U+00B2">>, <<"1", "2", "3", "4", "5", "A">>}
NiSuffixes == {<<"C">>, <<"c">>, <<"U+00C9">>, <<"1">>, <<>>, <<"C", " ">>, <<"C", "D">>, <<"-">>}
NiNumbers == {p \o m \o x : p \in NiPrefixes, m \in NiMiddles, x \in NiSuffixes} \cup {<<>>, <<" ">>}

\* the few of them tried between the module's other functions
ModuleNiNumbers ==
    {<<"A", "B", "1", "2", "3", "4", "5", "6", "C">>,
     <<"G", "B", "1", "2", "3", "4", "5", "6", "C">>,
     <<"U+00C9", "B", "1", "2", "3", "4", "5", "6", "C">>, <<>>}

\* tax codes and scheme names handed to the validators and lookups
TaxCodeArgs ==
    TaxCodes \cup valid_codes \cup
    {<<>>, <<"1", "0", "0", "0", "L">>, <<"S", "0", "T">>, <<"L">>, <<"S", "L">>, <<"S">>,
     <<"0", "L">>, <<"S", "4", "5", "L">>, <<"1", "2", "5", "7">>, <<"1", "2", "5", "7", "l">>,
     <<"s", "1", "2", "5", "7", "L">>, <<"1", "2", "5", "7", "L", " ">>, <<"b", "r">>,
     <<"K", "4", "7", "5">>, <<"1", "2", "5", "7", "M">>, <<"S", "S", "1", "L">>,
     <<"1", "L", "L">>, <<"U+00B2", "L">>, <<"S", "1", "U+00B2", "L">>, <<"1", "T">>}
SchemeArgs == {"auto_enrolment", "nest", "none", "bogus_scheme"}

CalculatorNames ==
    {"calculate_paye_tax", "calculate_ni_contribution", "calculate_pension_contribution",
     "calculate_student_loan", "calculate_employer_ni", "calculate_employer_pension"}

\* one of the six calculators called with the request's employee, salary and gross pay
CalculatorAnswer(name) ==
    CASE name = "calculate_paye_tax" -> calculate_paye_tax(employee, RequestSalary, RequestGross)
      [] name = "calculate_ni_contribution" ->
             calculate_ni_contribution(employee, RequestSalary, RequestGross)
      [] name = "calculate_pension_contribution" ->
             calculate_pension_contribution(employee, RequestGross)
      [] name = "calculate_student_loan" ->
             calculate_student_loan(employee, RequestSalary, RequestGross)
      [] name = "calculate_employer_ni" ->
             calculate_employer_ni(employee, RequestSalary, RequestGross)
      [] name = "calculate_employer_pension" -> calculate_employer_pension(employee, RequestGross)

Answered(op, arg, answer) == [op |-> op, arg |-> arg, answer |-> answer]

ModuleInit ==
    /\ \E request \in CallRequests :
           /\ employee = request[1]
           /\ payslip_data = request[2]
    /\ result = NoResult
    /\ tables = RateTables
    /\ calls = NoCalls
    /\ lookup = NoLookup
    /\ db = NoDatabase
    /\ session = NoSession
    /\ run = NoRun

CallCalculator ==
    /\ \E name \in CalculatorNames : lookup' = Answered(name, "request", CalculatorAnswer(name))
    /\ UNCHANGED <<employee, payslip_data, result, tables, calls, db, session, run>>

ValidateTaxCode ==
    /\ \E tax_code \in TaxCodeArgs :
           lookup' = Answered("validate_tax_code", tax_code, validate_tax_code(tax_code))
    /\ UNCHANGED <<employee, payslip_data, result, tables, calls, db, session, run>>

ValidateNiNumber(numbers) ==
    /\ \E ni_number \in numbers :
           lookup' = Answered("validate_ni_number", ni_number, validate_ni_number(ni_number))
    /\ UNCHANGED <<employee, payslip_data, result, tables, calls, db, session, run>>

ValidatePensionScheme ==
    /\ \E scheme \in SchemeArgs :
           lookup' = Answered("validate_pension_scheme", scheme, validate_pension_scheme(scheme))
    /\ UNCHANGED <<employee, payslip_data, result, tables, calls, db, session, run>>

GetPensionSchemeInfo ==
    /\ \E scheme \in SchemeArgs :
           /\ lookup' = Answered("get_pension_scheme_info", scheme,
                                 get_pension_scheme_info(tables.HMRC_PENSION_SCHEMES, scheme))
           /\ tables' = [tables EXCEPT !.HMRC_PENSION_SCHEMES =
                            AfterGet(@, scheme, @["auto_enrolment"])]
    /\ UNCHANGED <<employee, payslip_data, result, calls, db, session, run>>

GetAllPensionSchemes ==
    /\ lookup' = Answered("get_all_pension_schemes", "",
                          get_all_pension_schemes(tables.HMRC_PENSION_SCHEMES))
    /\ UNCHANGED <<employee, payslip_data, result, tables, calls, db, session, run>>

ModuleNext ==
    \/ Calculate
    \/ CallCalculator
    \/ ValidateTaxCode
    \/ ValidateNiNumber(ModuleNiNumbers)
    \/ ValidatePensionScheme
    \/ GetPensionSchemeInfo
    \/ GetAllPensionSchemes

SpecModule == ModuleInit /\ [][ModuleNext]_vars

\* the validators alone, on every value drawn
ValidatorsInit ==
    /\ employee = Absent
    /\ payslip_data = Absent
    /\ result = Absent
    /\ tables = RateTables
    /\ calls = NoCalls
    /\ lookup = NoLookup
    /\ db = NoDatabase
    /\ session = NoSession
    /\ run = NoRun

ValidatorsNext ==
    \/ ValidateTaxCode
    \/ ValidateNiNumber(NiNumbers)
    \/ ValidatePensionScheme

SpecValidators == ValidatorsInit /\ [][ValidatorsNext]_vars

\* ------------------------------------------------------------------------
\* Payroll router: the database rows and calculate_payslip
\* ------------------------------------------------------------------------

\* a Python float: a finite amount (held in pence), positive infinity or not a number
Finite(p) == [kind |-> "finite", pence |-> p]
Infinite == [kind |-> "inf"]
NotANumber == [kind |-> "nan"]

\* the names a Payslip accepts as keyword arguments: its columns and its relationship
PayslipColumns ==
    {"id", "employee_id", "pay_period_start", "pay_period_end", "pay_date", "basic_pay",
     "overtime_pay", "bonus_pay", "other_pay", "gross_pay", "paye_tax",
     "national_insurance", "pension_contribution", "student_loan", "other_deductions",
     "net_pay", "rti_submitted", "rti_reference", "created_at", "updated_at", "employee"}

Raises(error) == [status |-> "raised", error |-> error]

\* the constructor declarative_base() gives a model class: a keyword that names no
\* attribute of the class raises TypeError, the others are set on the new object
Construct(columns, kwargs) ==
    IF DOMAIN kwargs \subseteq columns
    THEN [status |-> "constructed", row |-> kwargs]
    ELSE Raises("TypeError")

\* dict.update
DictUpdate(d, u) == [k \in DOMAIN d \cup DOMAIN u |-> IF k \in DOMAIN u THEN u[k] ELSE d[k]]

\* await calculate_payroll(employee, payslip_data) for an employee whose salary is a
\* float: Decimal('NaN') raises decimal.InvalidOperation at the first comparison,
\* Decimal('Infinity') when an infinite amount is rounded to two places
AwaitCalculatePayroll(employee_obj, payslip_dict) ==
    IF employee_obj.salary.kind # "finite"
    THEN Raises("InvalidOperation")
    ELSE Returned(calculate_payroll([employee_obj EXCEPT !.salary = @.pence], payslip_dict))

\* the next primary key of a table
NextId(rows) ==
    IF rows = {} THEN 1 ELSE 1 + (CHOOSE n \in {r.id : r \in rows} : \A r \in rows : r.id <= n)

\* a calendar date written 'YYYY-MM-DD', as <<year, month, day>>, and
\* datetime.strptime(text, '%Y-%m-%d'), which raises ValueError for no such day
IsDate(text) == text[2] \in 1..12 /\ text[3] \in 1..(IF text[2] = 2 THEN 29 ELSE 30)
PeriodStart == <<2024, 1, 1>>
PeriodEnd == <<2024, 1, 30>>
PayDates == {<<2024, 1, 30>>, <<2024, 13, 1>>}

\* the employees table: an active employee, one who left, one whose salary column
\* holds infinity and one whose is_active column is NULL
PayrollEmployees ==
    {[id |-> 1, is_active |-> <<TRUE>>, salary |-> Finite(6500000), tax_code |-> Code1257L,
      pension_scheme |-> "auto_enrolment", pension_contribution |-> <<50>>, company_id |-> 1],
     [id |-> 2, is_active |-> <<FALSE>>, salary |-> Finite(3000000), tax_code |-> BR,
      pension_scheme |-> "nest", pension_contribution |-> <<50>>, company_id |-> 1],
     [id |-> 3, is_active |-> <<TRUE>>, salary |-> Infinite, tax_code |-> BR,
      pension_scheme |-> "auto_enrolment", pension_contribution |-> <<50>>, company_id |-> 1],
     [id |-> 4, is_active |-> None, salary |-> Finite(3000000), tax_code |-> BR,
      pension_scheme |-> "auto_enrolment", pension_contribution |-> <<50>>, company_id |-> 1]}

\* the payslips the demo seed stored, amounts in pence
SeededPayslips ==
    {[id |-> 1, employee_id |-> 1, pay_period_start |-> <<2023, 12, 1>>,
      pay_period_end |-> <<2023, 12, 30>>, pay_date |-> <<2023, 12, 30>>,
      basic_pay |-> 541667, overtime_pay |-> 0, bonus_pay |-> 0, other_pay |-> 0,
      gross_pay |-> 541667, paye_tax |-> 108333, national_insurance |-> 65000,
      pension_contribution |-> 27083, student_loan |-> 0, other_deductions |-> 0,
      net_pay |-> 341251, rti_submitted |-> FALSE, rti_reference |-> None]}

\* a PayslipCreate body, its pay components in tenths of a penny
PayslipBodies ==
    {[employee_id |-> e, pay_period_start |-> PeriodStart, pay_period_end |-> PeriodEnd,
      pay_date |-> d, basic_pay |-> b, overtime_pay |-> 0, bonus_pay |-> 0, other_pay |-> 0] :
        e \in {1, 2, 3, 4, 9}, d \in PayDates, b \in {3000000, 5416670}}

\* db.add(row); db.commit(): the row gets its primary key and its column defaults
Insert(rows, row) ==
    rows \cup {DictUpdate([rti_submitted |-> FALSE, rti_reference |-> None],
                          DictUpdate(row, [id |-> NextId(rows)]))}

\* what a request leaves: its response, the outcome of the calculation it made (or
\* "not called") and the database after it
Outcome(response, calculation, database) ==
    [response |-> response, calculation |-> calculation, db |-> database]
HttpError(code, detail) == [status |-> code, detail |-> detail]
NotCalled == [status |-> "not called"]

\* calculate_payslip from the calculation on: the Payslip is built, added and committed
StorePayslip(database, body, calculation_result) ==
    IF calculation_result.status = "raised"
    THEN Outcome(HttpError(400, "Payroll calculation failed"), calculation_result, database)
    ELSE IF Construct(PayslipColumns, DictUpdate(body, calculation_result.value)).status
                = "raised"
    THEN Outcome(HttpError(500, "TypeError"), calculation_result, database)
    ELSE Outcome([status |-> 201,
                  payslip |-> DictUpdate(DictUpdate(body, calculation_result.value),
                                         [id |-> NextId(database.payslips)])],
                 calculation_result,
                 [database EXCEPT !.payslips =
                      Insert(@, DictUpdate(body, calculation_result.value))])

\* the same query without the filter on is_active
EmployeesWithId(database, employee_id) ==
    {e \in database.employees : e.id = employee_id}

\* the query of calculate_payslip for the active employee of the request
ActiveEmployees(database, employee_id) ==
    {e \in database.employees : e.id = employee_id /\ e.is_active = <<TRUE>>}

\* the three dates of the body, which calculate_payslip converts with strptime
DatesParse(body) ==
    IsDate(body.pay_period_start) /\ IsDate(body.pay_period_end) /\ IsDate(body.pay_date)

\* ------------------------------------------------------------------------
\* Payroll router: the batch run from employee records
\* ------------------------------------------------------------------------

\* the records of a batch are drawn up to this many
MaxRecords == 3

DigitOrder == <<"0", "1", "2", "3", "4", "5", "6", "7", "8", "9">>
DigitValue(c) == (CHOOSE i \in 1..Len(DigitOrder) : DigitOrder[i] = c) - 1

RECURSIVE NumberOf(_)
NumberOf(text) ==
    IF text = <<>> THEN 0
    ELSE 10 * NumberOf(SubSeq(text, 1, Len(text) - 1)) + DigitValue(text[Len(text)])

\* float(text) for the texts drawn here: a whole number of pounds, 'nan', 'inf', or
\* a text float() rejects with ValueError
ParseFloat(text) ==
    IF text # <<>> /\ \A i \in 1..Len(text) : text[i] \in DigitChars
    THEN Finite(100 * NumberOf(text))
    ELSE IF Upper(text) = <<"N", "A", "N">> THEN NotANumber
    ELSE IF Upper(text) = <<"I", "N", "F">> THEN Infinite
    ELSE Raises("ValueError")

\* salary = float(record.taxable_pay_this_employment or 45000), 45000 on ValueError
RecordSalary(record) ==
    IF record.taxable_pay_this_employment = <<>> THEN Finite(4500000)
    ELSE LET parsed == ParseFloat(record.taxable_pay_this_employment)
         IN  IF "status" \in DOMAIN parsed THEN Finite(4500000) ELSE parsed

\* salary / 12 in tenths of a penny; the finite salaries drawn divide evenly
MonthlyOf(salary) == IF salary.kind = "finite" THEN (salary.pence * 10) \div 12 ELSE salary

\* class EmployeeRecordEmployee
EmployeeRecordEmployee(record, salary) ==
    [id |-> record.id, salary |-> salary,
     tax_code |-> IF record.tax_code = <<>> THEN BR ELSE record.tax_code,
     pension_scheme |-> "auto_enrolment", pension_contribution |-> <<50>>]

\* the Payslip built from a calculation that returned, or the exception raised
PayslipFrom(data, calculation_result) ==
    IF calculation_result.status = "raised"
    THEN [calculation |-> calculation_result, payslip |-> calculation_result]
    ELSE [calculation |-> calculation_result,
          payslip |-> Construct(PayslipColumns, DictUpdate(data, calculation_result.value))]

\* the payslip_data dictionary the loop builds for a record
RecordPayslipData(record, start_date, end_date, pay_date) ==
    [employee_id |-> record.id, pay_period_start |-> start_date,
     pay_period_end |-> end_date, pay_date |-> pay_date,
     basic_pay |-> MonthlyOf(RecordSalary(record)), overtime_pay |-> 0, bonus_pay |-> 0,
     other_pay |-> 0]

\* what an except block does with the failure of a record: print it and go on to
\* the next record
ContinueAfterFailure(task, line) ==
    [task EXCEPT !.printed = Append(@, line), !.index = @ + 1]

\* the same, leaving the loop at the first failure
StopAfterFailure(task, line) ==
    [task EXCEPT !.printed = Append(@, line), !.index = Len(task.employee_records) + 1]

\* the except block of process_batch_payroll_from_records
BatchExcept(task, line) == ContinueAfterFailure(task, line)

\* the end of one turn of the loop: the payslip is added to the session, or the
\* exception is handled
TurnEnd(task, pending, record, made) ==
    IF made.payslip.status = "raised"
    THEN [task |-> BatchExcept([task EXCEPT !.calculations =
                                    Append(@, made.calculation.status)],
                               [failed |-> record.reference, error |-> made.payslip.error]),
          session |-> pending]
    ELSE [task |-> [task EXCEPT !.calculations = Append(@, made.calculation.status),
                                !.payslips_created = Append(@, made.payslip.row),
                                !.index = @ + 1],
          session |-> Append(pending, made.payslip.row)]

RECURSIVE InsertAll(_, _)
InsertAll(rows, pending) ==
    IF pending = <<>> THEN rows ELSE InsertAll(Insert(rows, Head(pending)), Tail(pending))

\* the texts a record's taxable pay and tax code columns hold
RecordKinds ==
    {<<None, None>>, <<<<"6", "0", "0", "0", "0">>, Code1257L>>, <<<<"n", "a", "n">>, BR>>,
     <<<<"a", "b", "c">>, None>>}

RecordOf(kinds) ==
    [i \in 1..Len(kinds) |->
        [id |-> i, reference |-> i, taxable_pay_this_employment |-> kinds[i][1],
         tax_code |-> kinds[i][2]]]

\* the employee_records table, in the order the query returns it
RecordTables ==
    {RecordOf(kinds) : kinds \in UNION {[1..n -> RecordKinds] : n \in 0..MaxRecords}}

\* ------------------------------------------------------------------------
\* NLP router: run_payroll_command
\* ------------------------------------------------------------------------

\* text ILIKE '%part%', for a part without wildcards
Contains(text, part) ==
    \E i \in 1..(Len(text) - Len(part) + 1) :
        Upper(SubSeq(text, i, i + Len(part) - 1)) = Upper(part)

\* the rows of a table in the order of their primary keys
RECURSIVE RowsById(_)
RowsById(rows) ==
    IF rows = {} THEN <<>>
    ELSE LET first == CHOOSE r \in rows : \A q \in rows : r.id <= q.id
         IN  <<first>> \o RowsById(rows \ {first})

\* the companies whose name holds company_name, as the query returns them
CompaniesNamed(database, company_name) ==
    IF company_name = <<>> THEN <<>>
    ELSE RowsById({c \in database.companies : Contains(c.name, company_name)})

ActiveEmployeesOf(database, company) ==
    RowsById({e \in database.employees : e.company_id = company.id /\ e.is_active = <<TRUE>>})

\* run_payroll_command for the employees found; month and year are optional
\* numerals. Both branches of the pay period's computation read date.timedelta;
\* the class date has no such attribute, so AttributeError is raised there, outside
\* any try block, and the loop over the employees is never entered.
CommandFor(database, employees, month, year) ==
    IF employees = <<>>
    THEN Outcome(HttpError(400, "No active employees found"), NotCalled, database)
    ELSE IF month # None /\ year # None /\ month[1] \notin 1..12
    THEN Outcome(HttpError(400, "Invalid month/year format"), NotCalled, database)
    ELSE Outcome(HttpError(500, "AttributeError"), NotCalled, database)

\* run_payroll_command
run_payroll_command(database, company_name, month, year) ==
    IF CompaniesNamed(database, company_name) = <<>>
    THEN Outcome(HttpError(404, "Company not found"), NotCalled, database)
    ELSE CommandFor(database,
                    ActiveEmployeesOf(database, Head(CompaniesNamed(database, company_name))),
                    month, year)

\* ------------------------------------------------------------------------
\* The payroll requests as a state machine
\* ------------------------------------------------------------------------

PayrollCompanies ==
    {[id |-> 1, name |-> <<"A", "c", "m", "e">>], [id |-> 2, name |-> <<"Z", "e", "d">>]}

CompanyNameArgs == {None, <<"a", "c">>, <<"Z", "e", "d">>, <<"x">>}
MonthArgs == {None, <<1>>, <<13>>}

PayrollInit ==
    /\ employee = Absent
    /\ payslip_data = Absent
    /\ result = Absent
    /\ tables = RateTables
    /\ calls = NoCalls
    /\ lookup = NoLookup
    /\ \E records \in RecordTables :
           db = [employees |-> PayrollEmployees, employee_records |-> records,
                 payslips |-> SeededPayslips, companies |-> PayrollCompanies]
    /\ session = NoSession
    /\ run = NoRun

\* no request or background task is in progress
Idle == run.pc = "done"

Pending == [status |-> "pending"]

Handled(op, request, out) ==
    [op |-> op, pc |-> "done", request |-> request, calculation |-> out.calculation,
     response |-> out.response]

\* calculate_payslip up to its await of calculate_payroll
CalculatePayslip ==
    /\ Idle
    /\ \E body \in PayslipBodies :
           run' =
               IF ActiveEmployees(db, body.employee_id) = {}
               THEN Handled("calculate_payslip", body,
                            Outcome(HttpError(404, "Active employee not found"), NotCalled, db))
               ELSE IF ~DatesParse(body)
               THEN Handled("calculate_payslip", body,
                            Outcome(HttpError(500, "ValueError"), NotCalled, db))
               ELSE [op |-> "calculate_payslip", pc |-> "await", request |-> body,
                     call |-> [employee |-> CHOOSE e \in ActiveEmployees(db, body.employee_id) :
                                                TRUE,
                               payslip_data |-> body],
                     calculation |-> NotCalled, response |-> Pending]
    /\ session' = NoSession
    /\ UNCHANGED <<employee, payslip_data, result, tables, calls, lookup, db>>

\* calculate_payroll runs for the caller that awaits it, and returns or raises
PayrollReturns ==
    /\ run.pc = "await"
    /\ run' = [run EXCEPT !.pc = "resumed",
                          !.calculation =
                              AwaitCalculatePayroll(run.call.employee, run.call.payslip_data)]
    /\ UNCHANGED <<employee, payslip_data, result, tables, calls, lookup, db, session>>

\* calculate_payslip after the await
CalculatePayslipEnd ==
    /\ run.op = "calculate_payslip"
    /\ run.pc = "resumed"
    /\ \E out \in {StorePayslip(db, run.request, run.calculation)} :
           /\ run' = Handled("calculate_payslip", run.request, out)
           /\ db' = out.db
    /\ session' = NoSession
    /\ UNCHANGED <<employee, payslip_data, result, tables, calls, lookup>>

RunPayrollCommand ==
    /\ Idle
    /\ \E company_name \in CompanyNameArgs, month \in MonthArgs :
           \E out \in {run_payroll_command(db, company_name, month, <<2024>>)} :
               /\ run' = Handled("run_payroll_command", <<company_name, month>>, out)
               /\ db' = out.db
    /\ session' = NoSession
    /\ UNCHANGED <<employee, payslip_data, result, tables, calls, lookup>>

\* run_batch_payroll: the request answers 202 and leaves the background task
\* process_batch_payroll_from_records to run with the request's session
RunBatchPayroll ==
    /\ Idle
    /\ \E pay_date \in PayDates :
           run' =
               IF db.employee_records = <<>>
               THEN Handled("run_batch_payroll", pay_date,
                            Outcome(HttpError(400, "No employee records found"), NotCalled, db))
               ELSE IF ~IsDate(pay_date)
               THEN Handled("run_batch_payroll", pay_date,
                            Outcome(HttpError(500, "ValueError"), NotCalled, db))
               ELSE [op |-> "process_batch_payroll_from_records", pc |-> "loop",
                     response |-> [status |-> 202,
                                   message |-> "Batch payroll processing started from employee records",
                                   company_id |-> 1,
                                   employee_count |-> Len(db.employee_records),
                                   pay_period |-> <<PeriodStart, PeriodEnd>>,
                                   pay_date |-> pay_date],
                     returned |-> None,
                     employee_records |-> db.employee_records, index |-> 1,
                     start_date |-> PeriodStart, end_date |-> PeriodEnd,
                     pay_date |-> pay_date, payslips_created |-> <<>>,
                     call |-> NotCalled, calculation |-> NotCalled,
                     calculations |-> <<>>, printed |-> <<>>]
    /\ session' = NoSession
    /\ UNCHANGED <<employee, payslip_data, result, tables, calls, lookup, db>>

InBatch == run.op = "process_batch_payroll_from_records"

\* the loop takes the next record, up to its await of calculate_payroll
BatchRecord ==
    /\ InBatch
    /\ run.pc = "loop"
    /\ run.index <= Len(run.employee_records)
    /\ \E record \in {run.employee_records[run.index]} :
           run' = [run EXCEPT
                      !.pc = "await",
                      !.call = [employee |-> EmployeeRecordEmployee(record, RecordSalary(record)),
                                payslip_data |-> RecordPayslipData(record, run.start_date,
                                                                   run.end_date, run.pay_date)]]
    /\ UNCHANGED <<employee, payslip_data, result, tables, calls, lookup, db, session>>

\* the rest of the turn: the Payslip is built and added, or the except block runs
BatchRecordEnd ==
    /\ InBatch
    /\ run.pc = "resumed"
    /\ \E turn \in {TurnEnd([run EXCEPT !.pc = "loop"], session,
                             run.employee_records[run.index],
                             PayslipFrom(run.call.payslip_data, run.calculation))} :
           /\ run' = turn.task
           /\ session' = turn.session
    /\ UNCHANGED <<employee, payslip_data, result, tables, calls, lookup, db>>

\* after the loop: db.commit(), the count printed, the BACS file asked for
BatchCommit ==
    /\ InBatch
    /\ run.pc = "loop"
    /\ run.index > Len(run.employee_records)
    /\ db' = [db EXCEPT !.payslips = InsertAll(@, session)]
    /\ session' = NoSession
    /\ run' = [run EXCEPT !.pc = "done",
                          !.printed = Append(@, [created |-> Len(run.payslips_created)]),
                          !.returned = None]
    /\ UNCHANGED <<employee, payslip_data, result, tables, calls, lookup>>

PayrollNext ==
    \/ CalculatePayslip
    \/ PayrollReturns
    \/ CalculatePayslipEnd
    \/ RunPayrollCommand
    \/ RunBatchPayroll
    \/ BatchRecord
    \/ BatchRecordEnd
    \/ BatchCommit

SpecPayroll == PayrollInit /\ [][PayrollNext]_vars

\* ------------------------------------------------------------------------
\* calculate_paye_tax alone, on the tax codes the validators accept
\* ------------------------------------------------------------------------

CodeSBR == <<"S", "B", "R">>
CodeSD0 == <<"S", "D", "0">>
CodeSD1 == <<"S", "D", "1">>
CodeSNT == <<"S", "N", "T">>
Code0T == <<"0", "T">>
CodeS0T == <<"S", "0", "T">>
PayeTaxCodes ==
    {BR, D0, D1, NT, CodeSBR, CodeSD0, CodeSD1, CodeSNT, Code0T, CodeS0T,
     Code1257L, CodeS1257L, CodeXYZ}

PayeEmployees == {[salary |-> s, tax_code |-> t] : s \in Salaries, t \in PayeTaxCodes}
PayeGross == {[basic_pay |-> b] : b \in BasicPays}

PayeInit ==
    /\ employee \in PayeEmployees
    /\ payslip_data \in PayeGross
    /\ result = Absent
    /\ tables = RateTables
    /\ calls = NoCalls
    /\ lookup = NoLookup
    /\ db = NoDatabase
    /\ session = NoSession
    /\ run = NoRun

\* calculate_payroll's call of calculate_paye_tax(employee, annual_salary, gross_pay)
CalculatePayeTax ==
    /\ lookup = NoLookup
    /\ lookup' = Answered("calculate_paye_tax", employee.tax_code,
                          calculate_paye_tax(employee, Dec(employee.salary, SalaryExp),
                                             Dec(payslip_data.basic_pay, PayExp)))
    /\ UNCHANGED <<employee, payslip_data, result, tables, calls, db, session, run>>

PayeNext == CalculatePayeTax

SpecPaye == PayeInit /\ [][PayeNext]_vars

\* ------------------------------------------------------------------------
\* Company router: create, update, delete and the CSV upload
\* ------------------------------------------------------------------------

\* the rows of a CSV file are drawn up to this many
MaxCsvRows == 2

\* str.strip() of the blanks written here
RECURSIVE StripLeft(_)
StripLeft(s) == IF s # <<>> /\ s[1] = " " THEN StripLeft(Tail(s)) ELSE s
RECURSIVE StripRight(_)
StripRight(s) ==
    IF s # <<>> /\ s[Len(s)] = " " THEN StripRight(SubSeq(s, 1, Len(s) - 1)) ELSE s
Strip(s) == StripRight(StripLeft(s))

\* filename.endswith('.csv')
EndsWithCsv(filename) ==
    Len(filename) >= 4 /\ SubSeq(filename, Len(filename) - 3, Len(filename)) = <<".", "c", "s", "v">>

Acme == <<"A", "c", "m", "e">>
Bolt == <<"B", "o", "l", "t">>
RegA1 == <<"A", "1">>
RegB2 == <<"B", "2">>
Office == <<"1", "2", "0">>
Street == <<"1", " ", "H", "i", "g", "h">>
Postcode == <<"N", "1">>
Phone == <<"0", "2", "0">>

\* request bodies that pass CompanyCreate: the texts are not empty, phone and email
\* may be left out
CreateBodies ==
    {[name |-> Acme, registration_number |-> r, tax_office |-> Office, address |-> Street,
      postcode |-> Postcode, phone |-> p, email |-> None] :
        r \in {RegA1, RegB2}, p \in {None, <<Phone>>}}
UpdateBodies ==
    {[name |-> Bolt, registration_number |-> r, tax_office |-> Office, address |-> Street,
      postcode |-> Postcode, phone |-> None, email |-> None] :
        r \in {RegA1, RegB2}}
CompanyIds == 1..3

\* the rows csv.DictReader yields under the header name,registration_number,tax_office:
\* a cell the row is too short for is None
CsvRows ==
    {[name |-> <<<<" ">> \o Acme>>, registration_number |-> <<RegA1 \o <<" ">>>>,
      tax_office |-> <<Office>>],
     [name |-> <<Bolt>>, registration_number |-> <<RegB2>>, tax_office |-> <<<<>>>>],
     [name |-> <<<<" ">>>>, registration_number |-> <<RegA1>>, tax_office |-> <<Office>>],
     [name |-> <<Bolt>>, registration_number |-> <<RegB2>>, tax_office |-> None]}
RECURSIVE CsvFilesOf(_)
CsvFilesOf(n) ==
    IF n = 0 THEN {<<>>}
    ELSE CsvFilesOf(n - 1)
             \cup {Append(rows, row) : rows \in {f \in CsvFilesOf(n - 1) : Len(f) = n - 1},
                                       row \in CsvRows}
CsvFiles == CsvFilesOf(MaxCsvRows)
CsvNames == {<<"c", ".", "c", "s", "v">>, <<"c", ".", "t", "x", "t">>}

\* the unique constraint on companies.registration_number
UniqueNumbers(rows) ==
    \A a, b \in rows : a.registration_number = b.registration_number => a = b

\* db.commit(): the rows flushed are stored unless they break the unique constraint
CommitUnchecked(database, rows) ==
    [status |-> "committed", db |-> [database EXCEPT !.companies = rows]]

CommitCompanies(database, rows) ==
    IF UniqueNumbers(rows) /\ Cardinality({r.id : r \in rows}) = Cardinality(rows)
    THEN [status |-> "committed", db |-> [database EXCEPT !.companies = rows]]
    ELSE [status |-> "IntegrityError", db |-> database]

Answer(response, committed) == [response |-> response, db |-> committed.db]
AfterCommit(committed, response) ==
    IF committed.status = "committed" THEN Answer(response, committed)
    ELSE Answer(HttpError(500, committed.status), committed)

WithNumber(rows, registration_number) ==
    {c \in rows : c.registration_number = registration_number}

create_company(database, company_data) ==
    IF WithNumber(database.companies, company_data.registration_number) # {}
    THEN [response |-> HttpError(400, "Company with this registration number already exists"),
          db |-> database]
    ELSE AfterCommit(
             CommitCompanies(database,
                             database.companies
                                 \cup {DictUpdate(company_data,
                                                  [id |-> NextId(database.companies)])}),
             [status |-> 201,
              company |-> DictUpdate(company_data, [id |-> NextId(database.companies)])])

update_company(database, company_id, company_data) ==
    IF \A c \in database.companies : c.id # company_id
    THEN [response |-> HttpError(404, "Company not found"), db |-> database]
    ELSE IF \E c \in database.companies :
                /\ c.id = company_id
                /\ company_data.registration_number # c.registration_number
                /\ \E other \in WithNumber(database.companies, company_data.registration_number) :
                       other.id # company_id
    THEN [response |-> HttpError(400, "Company with this registration number already exists"),
          db |-> database]
    ELSE AfterCommit(
             CommitCompanies(database,
                             {IF c.id = company_id THEN DictUpdate(c, company_data) ELSE c :
                                  c \in database.companies}),
             [status |-> 200, company |-> DictUpdate(company_data, [id |-> company_id])])

delete_company(database, company_id) ==
    IF \A c \in database.companies : c.id # company_id
    THEN [response |-> HttpError(404, "Company not found"), db |-> database]
    ELSE AfterCommit(CommitCompanies(database, {c \in database.companies : c.id # company_id}),
                     [status |-> 200, message |-> "Company deleted successfully"])

\* the company_data of a row: every cell stripped, the columns the header lacks empty
RowData(row) ==
    [name |-> Strip(row.name[1]), registration_number |-> Strip(row.registration_number[1]),
     tax_office |-> Strip(row.tax_office[1]), address |-> <<>>, postcode |-> <<>>,
     phone |-> <<>>, email |-> <<>>]

\* the attributes a row sets on the company it finds: the values that are not empty
RowUpdate(existing, data) ==
    [f \in DOMAIN existing |->
        IF f \in {"phone", "email"}
        THEN (IF f \in DOMAIN data /\ data[f] # <<>> THEN <<data[f]>> ELSE existing[f])
        ELSE IF f \in DOMAIN data /\ data[f] # <<>> THEN data[f] ELSE existing[f]]

\* the company a row creates
RowCompany(data) == [data EXCEPT !.phone = <<@>>, !.email = <<@>>]

\* one turn of the loop over the rows; the query sees the rows of the table, with the
\* changes of this session, and not the companies added and not yet flushed
CsvTurn(upload, row, line) ==
    IF \E f \in DOMAIN row : row[f] = None
    THEN [upload EXCEPT !.errors = Append(@, [row |-> line, error |-> "AttributeError"])]
    ELSE IF RowData(row).name = <<>> \/ RowData(row).registration_number = <<>>
    THEN [upload EXCEPT !.errors = Append(@, [row |-> line,
                                               error |-> "Missing required fields"])]
    ELSE IF WithNumber(upload.companies, RowData(row).registration_number) # {}
    THEN [upload EXCEPT
             !.companies =
                 {IF c.registration_number = RowData(row).registration_number
                  THEN RowUpdate(c, RowData(row)) ELSE c : c \in upload.companies},
             !.companies_updated = @ + 1]
    ELSE [upload EXCEPT !.added = Append(@, RowCompany(RowData(row))),
                        !.companies_created = @ + 1]

RECURSIVE CsvLoop(_, _, _)
CsvLoop(upload, rows, line) ==
    IF line > Len(rows) THEN upload
    ELSE CsvLoop(CsvTurn(upload, rows[line], line + 1), rows, line + 1)

\* the INSERTs of the flush: the companies added get the next ids, in the order added
RECURSIVE InsertCompanies(_, _)
InsertCompanies(rows, added) ==
    IF added = <<>> THEN rows
    ELSE InsertCompanies(rows \cup {DictUpdate(Head(added), [id |-> NextId(rows)])},
                         Tail(added))

UploadEnd(database, upload) ==
    AfterCommit(CommitCompanies(database, InsertCompanies(upload.companies, upload.added)),
                [status |-> 201, message |-> "CSV upload completed",
                 companies_created |-> upload.companies_created,
                 companies_updated |-> upload.companies_updated,
                 errors |-> upload.errors])

upload_companies_csv(database, filename, rows) ==
    IF ~EndsWithCsv(filename)
    THEN [response |-> HttpError(400, "File must be a CSV"), db |-> database]
    ELSE UploadEnd(database,
                   CsvLoop([companies |-> database.companies, added |-> <<>>,
                            companies_created |-> 0, companies_updated |-> 0,
                            errors |-> <<>>],
                           rows, 1))

CompanyInit ==
    /\ employee = Absent
    /\ payslip_data = Absent
    /\ result = Absent
    /\ tables = RateTables
    /\ calls = NoCalls
    /\ lookup = NoLookup
    /\ db = [companies |-> {}]
    /\ session = NoSession
    /\ run = NoRun

Served(op, request, out) == [op |-> op, pc |-> "done", request |-> request,
                             response |-> out.response]

CreateCompany ==
    /\ \E company_data \in CreateBodies :
           \E out \in {create_company(db, company_data)} :
               /\ run' = Served("create_company", company_data, out)
               /\ db' = out.db
    /\ UNCHANGED <<employee, payslip_data, result, tables, calls, lookup, session>>

UpdateCompany ==
    /\ \E company_id \in CompanyIds, company_data \in UpdateBodies :
           \E out \in {update_company(db, company_id, company_data)} :
               /\ run' = Served("update_company",
                                [company_id |-> company_id, company_data |-> company_data],
                                out)
               /\ db' = out.db
    /\ UNCHANGED <<employee, payslip_data, result, tables, calls, lookup, session>>

DeleteCompany ==
    /\ \E company_id \in CompanyIds :
           \E out \in {delete_company(db, company_id)} :
               /\ run' = Served("delete_company", [company_id |-> company_id], out)
               /\ db' = out.db
    /\ UNCHANGED <<employee, payslip_data, result, tables, calls, lookup, session>>

\* the content of a file whose name is refused is never read
UploadCompaniesCsv ==
    /\ \E filename \in CsvNames :
       \E rows \in (IF EndsWithCsv(filename) THEN CsvFiles ELSE {<<>>}) :
           \E out \in {upload_companies_csv(db, filename, rows)} :
               /\ run' = Served("upload_companies_csv",
                                [filename |-> filename, rows |-> rows], out)
               /\ db' = out.db
    /\ UNCHANGED <<employee, payslip_data, result, tables, calls, lookup, session>>

CompanyNext ==
    \/ CreateCompany
    \/ UpdateCompany
    \/ DeleteCompany
    \/ UploadCompaniesCsv

SpecCompany == CompanyInit /\ [][CompanyNext]_vars

\* ------------------------------------------------------------------------
\* Payroll router: submit_rti and the HMRC mock
\* ------------------------------------------------------------------------

Stars(n) == [i \in 1..n |-> "*"]

\* gdpr.mask_sensitive_data
mask_sensitive_data(data) ==
    IF data = <<>> \/ Len(data) < 3 THEN Stars(3)
    ELSE IF Len(data) <= 4 THEN <<data[1]>> \o Stars(Len(data) - 2) \o <<data[Len(data)]>>
    ELSE SubSeq(data, 1, 2) \o Stars(Len(data) - 4) \o SubSeq(data, Len(data) - 1, Len(data))

\* the validators of mocks/hmrc.py, which are not those of services/calc.py
hmrc_validate_ni_number(ni_number) ==
    IF ni_number = <<>> \/ Len(ni_number) # 9 THEN FALSE
    ELSE /\ IsAlpha(SubSeq(ni_number, 1, 2))
         /\ IsDigit(SubSeq(ni_number, 3, 8))
         /\ IsAlpha(SubSeq(ni_number, 9, 9))

hmrc_validate_tax_code(tax_code) ==
    tax_code \in {BR, D0, D1, NT, CodeSBR, CodeSD0, CodeSD1}

\* the day number of a date <<year, month, day>>, as date arithmetic counts days
IsLeap(y) == (y % 4 = 0 /\ y % 100 # 0) \/ y % 400 = 0
MonthDays(y, m) ==
    IF m = 2 THEN (IF IsLeap(y) THEN 29 ELSE 28)
    ELSE IF m \in {4, 6, 9, 11} THEN 30 ELSE 31
RECURSIVE DaysBeforeMonth(_, _)
DaysBeforeMonth(y, m) == IF m = 1 THEN 0 ELSE DaysBeforeMonth(y, m - 1) + MonthDays(y, m - 1)
Ordinal(d) ==
    365 * (d[1] - 1) + ((d[1] - 1) \div 4) - ((d[1] - 1) \div 100) + ((d[1] - 1) \div 400)
        + DaysBeforeMonth(d[1], d[2]) + d[3]

ErrorIf(condition, error) == IF condition THEN <<error>> ELSE <<>>

\* validate_rti_data for the rti_data submit_rti builds: the three sections and all
\* their keys are present, the amounts are floats
RtiErrors(rti_data) ==
    ErrorIf(~hmrc_validate_ni_number(rti_data.employee.ni_number),
            "Invalid National Insurance number format")
    \o ErrorIf(~hmrc_validate_tax_code(rti_data.employee.tax_code), "Invalid tax code")
    \o ErrorIf(Ordinal(rti_data.pay_period.start_date) >= Ordinal(rti_data.pay_period.end_date),
               "Pay period start date must be before end date")
    \o ErrorIf(Ordinal(rti_data.pay_period.end_date) - Ordinal(rti_data.pay_period.start_date)
                   > 31,
               "Pay period cannot exceed 31 days")
    \o ErrorIf(rti_data.employee.gross_pay < 0, "Invalid gross pay amount")
    \o ErrorIf(rti_data.employee.paye_tax < 0, "Invalid PAYE tax amount")
    \o ErrorIf(rti_data.employee.ni_contribution < 0,
               "Invalid National Insurance contribution")

validate_rti_data(rti_data) ==
    [valid |-> RtiErrors(rti_data) = <<>>, errors |-> RtiErrors(rti_data)]

\* submit_rti_return up to the point where it returns or suspends: data that are not
\* valid are answered at once; valid data reach asyncio.sleep(0.5), where the caller
\* is suspended and other requests run
submit_rti_return(rti_data, reference) ==
    IF ~validate_rti_data(rti_data).valid
    THEN [suspends |-> FALSE, status |-> "rejected", reference |-> <<reference>>,
          message |-> "RTI submission failed validation",
          errors |-> validate_rti_data(rti_data).errors]
    ELSE [suspends |-> TRUE]

\* what generate_rti_reference can return: a time stamp and a part of a uuid4
RtiReferences == {"RTI-20240130-A", "RTI-20240130-B"}

RtiNumberAB == <<"A", "B", "1", "2", "3", "4", "5", "6", "C">>
RtiNumberCD == <<"C", "D", "6", "5", "4", "3", "2", "1", "E">>
RtiEmployees ==
    {[id |-> 1, company_id |-> 1, national_insurance_number |-> RtiNumberAB,
      tax_code |-> Code1257L],
     [id |-> 2, company_id |-> 1, national_insurance_number |-> RtiNumberCD,
      tax_code |-> BR]}
RtiCompanies == {[id |-> 1, registration_number |-> RegA1, tax_office |-> Office]}

\* payslips as scripts/seed_demo.py stores them, none submitted
RtiPayslips ==
    {[id |-> 1, employee_id |-> 1, pay_period_start |-> <<2023, 12, 1>>,
      pay_period_end |-> <<2023, 12, 31>>, pay_date |-> <<2023, 12, 28>>,
      gross_pay |-> 541667, paye_tax |-> 108333, national_insurance |-> 65000,
      rti_submitted |-> FALSE, rti_reference |-> None],
     [id |-> 2, employee_id |-> 1, pay_period_start |-> <<2024, 1, 1>>,
      pay_period_end |-> <<2024, 1, 31>>, pay_date |-> <<2024, 1, 28>>,
      gross_pay |-> 541667, paye_tax |-> 108333, national_insurance |-> 65000,
      rti_submitted |-> FALSE, rti_reference |-> None],
     [id |-> 3, employee_id |-> 2, pay_period_start |-> <<2024, 2, 1>>,
      pay_period_end |-> <<2024, 2, 29>>, pay_date |-> <<2024, 2, 28>>,
      gross_pay |-> 250000, paye_tax |-> 50000, national_insurance |-> 15000,
      rti_submitted |-> FALSE, rti_reference |-> None]}
RtiPayslipIds == {1, 2, 3, 9}

\* the rti_data of a payslip, with the NI number masked
RtiData(payslip, payslip_employee, company) ==
    [employee |-> [ni_number |-> mask_sensitive_data(payslip_employee.national_insurance_number),
                   tax_code |-> payslip_employee.tax_code,
                   gross_pay |-> payslip.gross_pay,
                   paye_tax |-> payslip.paye_tax,
                   ni_contribution |-> payslip.national_insurance],
     company |-> [registration_number |-> company.registration_number,
                  tax_office |-> company.tax_office],
     pay_period |-> [start_date |-> payslip.pay_period_start,
                     end_date |-> payslip.pay_period_end,
                     pay_date |-> payslip.pay_date]]

\* the guard against a second submission
NeverSubmitted(payslip) == FALSE

AlreadySubmitted(payslip) == payslip.rti_submitted

RtiAnswer(response, rti_response, database) ==
    [pc |-> "done", response |-> response, rti_response |-> rti_response, db |-> database]

\* submit_rti from the response of the mock on
RtiStore(database, payslip, rti_response) ==
    IF rti_response.suspends
    THEN [pc |-> "sleep", response |-> Pending, rti_response |-> rti_response,
          db |-> database]
    ELSE RtiAnswer([status |-> 200,
                    body |-> [message |-> "RTI submitted successfully",
                              rti_reference |-> rti_response.reference,
                              status |-> "accepted"]],
                   rti_response,
                   [database EXCEPT !.payslips =
                        (@ \ {payslip})
                            \cup {[payslip EXCEPT !.rti_submitted = TRUE,
                                                  !.rti_reference = rti_response.reference]}])

\* the rows the queries of submit_rti return with .first()
PayslipWithId(database, payslip_id) == CHOOSE p \in database.payslips : p.id = payslip_id
EmployeeOf(database, payslip) == {e \in database.employees : e.id = payslip.employee_id}
CompanyOf(database, payslip_employee) ==
    {c \in database.companies : c.id = payslip_employee.company_id}

\* the rti_data submit_rti builds for the payslip; none when the employee or the
\* company is missing, and the attribute read of None raises
RtiDataOf(database, payslip) ==
    UNION {{RtiData(payslip, e, c) : c \in CompanyOf(database, e)} :
               e \in EmployeeOf(database, payslip)}

\* submit_rti for a payslip found and not yet submitted
RtiSubmit(database, payslip, reference) ==
    IF RtiDataOf(database, payslip) = {}
    THEN RtiAnswer(HttpError(500, "AttributeError"), NotCalled, database)
    ELSE RtiStore(database, payslip,
                  submit_rti_return(CHOOSE d \in RtiDataOf(database, payslip) : TRUE,
                                    reference))

submit_rti(database, payslip_id, reference) ==
    IF \A p \in database.payslips : p.id # payslip_id
    THEN RtiAnswer(HttpError(404, "Payslip not found"), NotCalled, database)
    ELSE IF AlreadySubmitted(PayslipWithId(database, payslip_id))
    THEN RtiAnswer(HttpError(400, "RTI already submitted for this payslip"), NotCalled,
                   database)
    ELSE RtiSubmit(database, PayslipWithId(database, payslip_id), reference)

RtiInit ==
    /\ employee = Absent
    /\ payslip_data = Absent
    /\ result = Absent
    /\ tables = RateTables
    /\ calls = NoCalls
    /\ lookup = NoLookup
    /\ db = [payslips |-> RtiPayslips, employees |-> RtiEmployees, companies |-> RtiCompanies]
    /\ session = NoSession
    /\ run = NoRun

\* one submit_rti request, from its query to its answer or to the point where it is
\* suspended; calls lists the payslips of the requests answered 200
SubmitRti ==
    /\ Idle
    /\ \E payslip_id \in RtiPayslipIds, reference \in RtiReferences :
           \E out \in {submit_rti(db, payslip_id, reference)} :
               /\ run' = [op |-> "submit_rti", pc |-> out.pc, request |-> payslip_id,
                          response |-> out.response, rti_response |-> out.rti_response]
               /\ db' = out.db
               /\ calls' = IF out.pc = "done" /\ out.response.status = 200 THEN Append(calls, payslip_id)
                           ELSE calls
    /\ UNCHANGED <<employee, payslip_data, result, tables, lookup, session>>

RtiNext == SubmitRti

SpecRti == RtiInit /\ [][RtiNext]_vars

\* ------------------------------------------------------------------------
\* Properties
\* ------------------------------------------------------------------------

\* n / d for naturals n and d > 0, rounded to the nearest integer, ties to even
HalfEvenDiv(n, d) ==
    LET q == n \div d
        r == n % d
    IN IF 2 * r > d \/ (2 * r = d /\ q % 2 = 1) THEN q + 1 ELSE q

NumericAllowanceCodes == {Code1257L, CodeS1257L}

\* an employee profile and a pay period as the data model describes them: a
\* non-negative salary, a tax code of a recognised form, an approved pension scheme,
\* an override rate within [0, 1], a known student-loan plan or none, and
\* non-negative pay components in whole pence
KnownPlans == {"", "none", "plan_1", "plan_2", "plan_4", "plan_5"}
RateInRange(rate) == rate = None \/ (rate[1] >= 0 /\ rate[1] <= 1000)
ValidProfile ==
    /\ employee.salary >= 0
    /\ validate_tax_code(RequestTaxCode)
    /\ validate_pension_scheme(GetAttr(employee, "pension_scheme", "auto_enrolment"))
    /\ RateInRange(GetAttr(employee, "pension_contribution", None))
    /\ RateInRange(GetAttr(employee, "employer_pension_contribution", None))
    /\ GetAttr(employee, "student_loan_plan", "") \in KnownPlans
PayKeys == {"basic_pay", "overtime_pay", "bonus_pay", "other_pay", "other_deductions"}
WholePence == \A k \in PayKeys : PayOf(k) >= 0 /\ PayOf(k) % 10 = 0
ValidRequest == ValidProfile /\ WholePence

\* C1: the returned fields satisfy net_pay = gross_pay - paye_tax -
\* national_insurance - pension_contribution - student_loan - other_deductions to
\* the penny (and net_pay is therefore negative when the deductions exceed the gross
\* pay).  The code rounds net_pay and every deduction separately, so the returned
\* fields need not add up.
C1_NetPayIdentity ==
    (IsReturned /\ ValidRequest) =>
        result.value.net_pay =
            result.value.gross_pay - result.value.paye_tax - result.value.national_insurance
                - result.value.pension_contribution - result.value.student_loan
                - result.value.other_deductions

\* the rate tables' amounts in pence
PersonalAllowancePence == 1257000
BasicRateLimitPence == 5027000
HigherRateLimitPence == 12514000

\* The annual tax the claim describes, in hundredths of a penny, for a salary in
\* pence: 20% of the taxable part up to basic_rate_limit - personal_allowance, 40% of
\* the next higher_rate_limit - basic_rate_limit, 45% of the remainder.
ClaimedAnnualTax(salary) ==
    LET taxable == Max2(0, salary - PersonalAllowancePence)
        basic_width == BasicRateLimitPence - PersonalAllowancePence
        higher_width == HigherRateLimitPence - BasicRateLimitPence
        basic_part == Min2(taxable, basic_width)
        higher_part == Min2(Max2(0, taxable - basic_width), higher_width)
        additional_part == Max2(0, taxable - basic_width - higher_width)
    IN 20 * basic_part + 40 * higher_part + 45 * additional_part

\* C2: for a numeric-allowance tax code calculate_paye_tax returns a twelfth of the
\* annual tax of the three bands (20% up to basic_rate_limit - personal_allowance of
\* taxable income, 40% on the next higher_rate_limit - basic_rate_limit, 45% beyond),
\* so a salary at basic_rate_limit is charged at the basic rate only; the returned
\* paye_tax is that amount rounded.
C2_BandedPaye ==
    RequestTaxCode \in NumericAllowanceCodes =>
        /\ calculate_paye_tax(employee, RequestSalary, RequestGross)
               = DecDiv(Dec(ClaimedAnnualTax(employee.salary), -4), Twelve)
        /\ IsReturned =>
               result.value.paye_tax
                   = Money(DecDiv(Dec(ClaimedAnnualTax(employee.salary), -4), Twelve))
        /\ employee.salary = BasicRateLimitPence =>
               calculate_paye_tax(employee, RequestSalary, RequestGross)
                   = DecDiv(Dec(20 * (BasicRateLimitPence - PersonalAllowancePence), -4), Twelve)

\* a salary of exactly basic_rate_limit under 1257L: 37,700 at 20% is 7,540 a year,
\* 628.33 a month
C2_Witness ==
    /\ IsReturned
    /\ RequestTaxCode = Code1257L
    /\ employee.salary = BasicRateLimitPence
    /\ result.value.paye_tax = 62833

FlatRatePercent(tax_code) == IF tax_code = BR THEN 20 ELSE IF tax_code = D0 THEN 40 ELSE 45

\* C3: under BR, D0 and D1 the returned paye_tax is round(gross_pay * rate, 2), rate
\* 20%, 40%, 45%, of the period's gross pay (the sum of the four pay components),
\* whatever the annual salary.
C3_FlatRatePaye ==
    (IsReturned /\ RequestTaxCode \in {BR, D0, D1}) =>
        result.value.paye_tax = HalfEvenDiv(GrossMils * FlatRatePercent(RequestTaxCode), 1000)

\* BR on a gross pay of 3000.00 gives 600.00, here for a salary of 150,000
C3_Witness ==
    /\ IsReturned
    /\ RequestTaxCode = BR
    /\ GrossMils = 3000000
    /\ employee.salary = 15000000
    /\ result.value.paye_tax = 60000

\* C4: under NT the returned paye_tax is 0 for every salary and gross pay, and the
\* returned national_insurance is the one the same request gets under any other tax
\* code.
C4_NoTaxCode ==
    (IsReturned /\ RequestTaxCode = NT) =>
        /\ result.value.paye_tax = 0
        /\ \A t \in TaxCodes :
               Money(calculate_ni_contribution([employee EXCEPT !.tax_code = t],
                                               RequestSalary, RequestGross))
                   = result.value.national_insurance

\* NT on a salary of 65,000: no PAYE, and the NI of 401.55 that 1257L gets
C4_Witness ==
    /\ IsReturned
    /\ RequestTaxCode = NT
    /\ employee.salary = 6500000
    /\ result.value.paye_tax = 0
    /\ result.value.national_insurance = 40155

\* C5 as claimed: with a numeric-allowance code the returned paye_tax is 0 for a
\* salary equal to the personal allowance and strictly positive one penny above it.
C5_ThresholdAsClaimed ==
    (IsReturned /\ RequestTaxCode \in NumericAllowanceCodes) =>
        /\ employee.salary = PersonalAllowancePence => result.value.paye_tax = 0
        /\ employee.salary = PersonalAllowancePence + 1 => result.value.paye_tax > 0

\* C5, amended: with a numeric-allowance code the tax is 0 for a salary equal to the
\* personal allowance; one penny above it calculate_paye_tax returns a strictly
\* positive amount, which the returned paye_tax rounds to 0.00; the returned
\* paye_tax is positive from a salary of 12570.31.
C5_Threshold ==
    (IsReturned /\ RequestTaxCode \in NumericAllowanceCodes) =>
        /\ employee.salary = PersonalAllowancePence =>
               /\ calculate_paye_tax(employee, RequestSalary, RequestGross) = DecZero
               /\ result.value.paye_tax = 0
        /\ employee.salary = PersonalAllowancePence + 1 =>
               /\ DecGt(calculate_paye_tax(employee, RequestSalary, RequestGross), DecZero)
               /\ result.value.paye_tax = 0
        /\ employee.salary >= PersonalAllowancePence + 31 => result.value.paye_tax > 0

\* a salary of 12570.01 under 1257L has been calculated
C5_Witness ==
    /\ IsReturned
    /\ RequestTaxCode = Code1257L
    /\ employee.salary = PersonalAllowancePence + 1
    /\ result.value.paye_tax = 0

\* round-half-up to two places, as the returned amount in pence
HalfUpKeep(d, n) == IF d[n + 1] >= 5 THEN IncDigs(SubSeq(d, 1, n)) ELSE SubSeq(d, 1, n)
HalfUpAt(a, n) == IF n < 0 THEN DecZero ELSE DecNorm(a.neg, HalfUpKeep(a.digs, n), -2)
DecRound2HalfUp(a) == IF a.exp >= -2 THEN a ELSE HalfUpAt(a, Len(a.digs) + a.exp + 2)
HalfUpFields(amounts) == [f \in DOMAIN amounts |-> Float(DecRound2HalfUp(amounts[f]))]

\* C6: every monetary field returned is the computed amount rounded to two places
\* round-half-up.  The code rounds with round(), which is ROUND_HALF_EVEN under the
\* default context.
C6_RoundHalfUp ==
    (IsReturned /\ ValidRequest) =>
        result.value = HalfUpFields(payroll_amounts(employee, payslip_data))

\* the inputs C8 names
C8_Invalid ==
    \/ employee.salary < 0
    \/ ~RateInRange(GetAttr(employee, "pension_contribution", None))
    \/ ~validate_pension_scheme(GetAttr(employee, "pension_scheme", "auto_enrolment"))
    \/ GetAttr(employee, "student_loan_plan", "") \notin KnownPlans

\* C7: calculate_payroll returns no PAYE figure for a tax code that is not of a
\* recognised form.  The code has no check and taxes such a code by the bands.
C7_UnknownTaxCodeRejected ==
    (IsReturned /\ WholePence /\ ~C8_Invalid) => validate_tax_code(RequestTaxCode)

\* C8: calculate_payroll returns no breakdown for a negative salary, a pension rate
\* outside [0, 1], an unknown pension scheme or an unknown student-loan plan.  The
\* code has no check and returns a breakdown.
C8_InvalidInputRejected ==
    (IsReturned /\ WholePence /\ validate_tax_code(RequestTaxCode)) => ~C8_Invalid

\* Scenario A: a salary of 65,000 under 1257L and auto_enrolment, pay (5416.67, 0, 0, 0)
ScenarioA ==
    /\ employee.salary = 6500000
    /\ RequestTaxCode = Code1257L
    /\ GetAttr(employee, "pension_scheme", "auto_enrolment") = "auto_enrolment"
    /\ PayOf("basic_pay") = 5416670
    /\ PayOf("overtime_pay") = 0 /\ PayOf("bonus_pay") = 0 /\ PayOf("other_pay") = 0

\* C9 as claimed: in Scenario A the returned paye_tax is about 886.67 (within a pound)
C9_ScenarioAAsClaimed ==
    (IsReturned /\ ScenarioA) =>
        (result.value.paye_tax >= 88667 - 100 /\ result.value.paye_tax <= 88667 + 100)

\* C9, amended: in Scenario A the returned paye_tax is 1119.33, the twelfth of the
\* 13,432 a year that the three bands yield (37,700 at 20% and 14,730 at 40%).
C9_ScenarioA ==
    (IsReturned /\ ScenarioA) =>
        /\ result.value.paye_tax = 111933
        /\ ClaimedAnnualTax(employee.salary) = 134320000
        /\ result.value.paye_tax
               = Money(DecDiv(Dec(ClaimedAnnualTax(employee.salary), -4), Twelve))

C9_Witness == IsReturned /\ ScenarioA /\ result.value.paye_tax = 111933

\* C10 as claimed: the returned gross_pay is exactly the sum of the four components
C10_AdditivityAsClaimed ==
    (IsReturned /\ ValidProfile) => 10 * result.value.gross_pay = GrossMils

\* C10, amended: the returned gross_pay is the sum of the four components rounded
\* to two places (ties to even); it is exactly the sum whenever the sum is a whole
\* number of pence.
C10_Additivity ==
    IsReturned =>
        /\ result.value.gross_pay = HalfEvenDiv(GrossMils, 10)
        /\ GrossMils % 10 = 0 => 10 * result.value.gross_pay = GrossMils

\* four non-zero components in whole pence have been added up
C10_Witness ==
    /\ IsReturned
    /\ PayOf("basic_pay") > 0 /\ PayOf("overtime_pay") > 0
    /\ PayOf("bonus_pay") > 0 /\ PayOf("other_pay") > 0
    /\ GrossMils % 10 = 0
    /\ 10 * result.value.gross_pay = GrossMils

\* the breakdown the same call returns when the employee's salary is s instead
WithSalary(s) == calculate_payroll([employee EXCEPT !.salary = s], payslip_data)

\* the next salary drawn above s, or s itself when s is the highest
Raised(s) ==
    LET above == {t \in Salaries : t > s}
    IN IF above = {} THEN s ELSE CHOOSE t \in above : \A u \in above : t <= u

\* C11: with a numeric-allowance tax code and every other input unchanged, a higher
\* annual salary never gives a lower returned paye_tax or national_insurance. Every
\* salary drawn is compared with the next one above it, all other inputs equal; the
\* comparison of any two salaries follows along the chain.
C11_Monotone ==
    (IsReturned /\ RequestTaxCode \in NumericAllowanceCodes) =>
        LET richer == WithSalary(Raised(employee.salary))
        IN /\ richer.paye_tax >= result.value.paye_tax
           /\ richer.national_insurance >= result.value.national_insurance

\* 50,270 against the next salary, 65,000, under 1257L: both amounts rise
C11_Witness ==
    /\ IsReturned
    /\ RequestTaxCode = Code1257L
    /\ employee.salary = BasicRateLimitPence
    /\ Raised(employee.salary) = 6500000
    /\ WithSalary(6500000).paye_tax > result.value.paye_tax
    /\ WithSalary(6500000).national_insurance > result.value.national_insurance

\* the NI thresholds of the rate table, in pence a year
PrimaryThresholdPence == 1257000
UpperEarningsLimitPence == 5027000

\* The employee NI the claim describes for a monthly salary m: nothing up to the
\* monthly primary threshold, else 12% of min(m, upper limit) - primary threshold
\* plus 2% of max(0, m - upper limit), the thresholds being a twelfth of the annual ones.
ClaimedNi(annual_salary) ==
    LET m == DecDiv(annual_salary, Twelve)
        primary == DecDiv(Dec(PrimaryThresholdPence, -2), Twelve)
        upper == DecDiv(Dec(UpperEarningsLimitPence, -2), Twelve)
    IN IF ~DecGt(m, primary) THEN DecZero
       ELSE DecAdd(DecMul(DecSub(DecMin(m, upper), primary), Dec(12, -2)),
                   DecMul(DecMax(DecZero, DecSub(m, upper)), Dec(2, -2)))

\* the same amount for a salary in pence, as an exact fraction: this many 1200ths
\* of a penny a month
ClaimedNiTwelveHundredths(salary) ==
    IF salary <= PrimaryThresholdPence THEN 0
    ELSE 12 * (Min2(salary, UpperEarningsLimitPence) - PrimaryThresholdPence)
             + 2 * Max2(0, salary - UpperEarningsLimitPence)

\* |a|
Abs(a) == IF a < 0 THEN -a ELSE a

\* C12: calculate_ni_contribution on the monthly salary m = annual_salary / 12 gives
\* 0 when m is at most the monthly primary threshold, and otherwise 12% of
\* min(m, monthly upper earnings limit) - monthly primary threshold plus 2% of
\* max(0, m - monthly upper earnings limit): the slices add up. The returned
\* national_insurance is that amount to the nearest penny.
C12_EmployeeNi ==
    IsReturned =>
        LET ni == calculate_ni_contribution(employee, RequestSalary, RequestGross)
        IN /\ ni = ClaimedNi(RequestSalary)
           /\ employee.salary <= PrimaryThresholdPence => ni = DecZero
           /\ result.value.national_insurance = Money(ni)
           /\ 2 * Abs(1200 * result.value.national_insurance
                          - ClaimedNiTwelveHundredths(employee.salary)) <= 1200

\* a salary of 65,000: 12% of 3,141.67 is 377.00, 2% of 1,227.50 is 24.55
C12_Witness ==
    /\ IsReturned
    /\ employee.salary = 6500000
    /\ result.value.national_insurance = 40155
    /\ ClaimedNiTwelveHundredths(employee.salary) = 12 * 3770000 + 2 * 1473000

\* the employer's (secondary) NI threshold of the rate table, in pence a year
SecondaryThresholdPence == 910000

\* The employer NI the claim describes: 13.8% of the monthly salary above a twelfth
\* of the secondary threshold, whatever the salary's height, and nothing at or below it.
ClaimedEmployerNi(annual_salary) ==
    LET m == DecDiv(annual_salary, Twelve)
        secondary == DecDiv(Dec(SecondaryThresholdPence, -2), Twelve)
    IN IF DecGt(m, secondary) THEN DecMul(DecSub(m, secondary), Dec(138, -3)) ELSE DecZero

\* the same amount for a salary in pence, as an exact fraction: this many 2000ths
\* of a penny a month (13.8% / 12 = 23 / 2000)
ClaimedEmployerNiTwoThousandths(salary) == 23 * Max2(0, salary - SecondaryThresholdPence)

\* C13: calculate_employer_ni gives 13.8% of the monthly salary (annual_salary / 12)
\* above the monthly secondary threshold (9100 / 12), uncapped, and 0 at or below the
\* threshold; the returned employer_ni is that amount to the nearest penny, an
\* annual salary of 9000 returns national_insurance 0.00 and employer_ni 0.00, and
\* one of 150,000, far above the upper earnings limit, 13.8% of 140,900 / 12.
C13_EmployerNi ==
    IsReturned =>
        LET employer_ni == calculate_employer_ni(employee, RequestSalary, RequestGross)
        IN /\ employer_ni = ClaimedEmployerNi(RequestSalary)
           /\ employee.salary <= SecondaryThresholdPence => employer_ni = DecZero
           /\ result.value.employer_ni = Money(employer_ni)
           /\ 2 * Abs(2000 * result.value.employer_ni
                          - ClaimedEmployerNiTwoThousandths(employee.salary)) <= 2000
           /\ employee.salary = 900000 =>
                  /\ result.value.national_insurance = 0
                  /\ result.value.employer_ni = 0
           /\ employee.salary = 15000000 => result.value.employer_ni = 162035

\* Scenario D: an annual salary of 9000
C13_Witness ==
    /\ IsReturned
    /\ employee.salary = 900000
    /\ result.value.national_insurance = 0
    /\ result.value.employer_ni = 0

RequestScheme == GetAttr(employee, "pension_scheme", "auto_enrolment")
RequestPensionRate == GetAttr(employee, "pension_contribution", None)
RequestEmployerRate == GetAttr(employee, "employer_pension_contribution", None)

\* C14: under pension_scheme 'none' the returned pension_contribution and
\* employer_pension are both 0 for every gross pay, whatever custom employee or
\* employer rate the employee carries.
C14_PensionNone ==
    (IsReturned /\ RequestScheme = "none") =>
        /\ result.value.pension_contribution = 0
        /\ result.value.employer_pension = 0
        /\ calculate_pension_contribution(employee, RequestGross) = DecZero
        /\ calculate_employer_pension(employee, RequestGross) = DecZero

\* Scenario E with both overrides: scheme 'none', custom rates of 10% on either side
C14_Witness ==
    /\ IsReturned
    /\ RequestScheme = "none"
    /\ RequestPensionRate = <<100>>
    /\ RequestEmployerRate = <<100>>
    /\ GrossMils > 0
    /\ result.value.pension_contribution = 0
    /\ result.value.employer_pension = 0

\* the scheme's published default employee rate as the claim has it, and the rate
\* in force, in thousandths
ClaimedDefaultRate == 50
ClaimedEffectiveRate == IF RequestPensionRate # None THEN RequestPensionRate[1] ELSE ClaimedDefaultRate

\* C15: for an approved scheme other than 'none' the employee's pension contribution
\* is the period's gross pay times the effective rate: the employee's custom rate
\* when one is supplied, else the scheme's default of 5%. The returned
\* pension_contribution is that product rounded to the penny.
C15_PensionRate ==
    (IsReturned /\ validate_pension_scheme(RequestScheme) /\ RequestScheme # "none") =>
        /\ calculate_pension_contribution(employee, RequestGross)
               = DecMul(RequestGross, Dec(ClaimedEffectiveRate, -3))
        /\ result.value.pension_contribution
               = Money(DecMul(RequestGross, Dec(ClaimedEffectiveRate, -3)))
        /\ ClaimedEffectiveRate <= 100 =>
               result.value.pension_contribution
                   = HalfEvenDiv(GrossMils * ClaimedEffectiveRate, 10000)

\* an approved scheme with a custom rate of 8% on a gross pay of 5,416.67: 433.33
C15_Witness ==
    /\ IsReturned
    /\ RequestScheme = "royal_london"
    /\ RequestPensionRate = <<80>>
    /\ GrossMils = 5416670
    /\ result.value.pension_contribution = 43333

RequestPlan == GetAttr(employee, "student_loan_plan", "")

\* the plans' annual repayment thresholds as the claim has them, in pounds
ClaimedLoanThresholds == [plan_1 |-> 22015, plan_2 |-> 27295, plan_4 |-> 27660, plan_5 |-> 25000]

\* The repayment the claim describes: 9% of the gross pay above a twelfth of the
\* plan's annual threshold, nothing when the gross pay does not exceed it.
ClaimedLoan(plan, monthly_gross) ==
    LET monthly_threshold == DecDiv(Dec(ClaimedLoanThresholds[plan], 0), Twelve)
    IN IF DecGt(monthly_gross, monthly_threshold)
       THEN DecMul(DecSub(monthly_gross, monthly_threshold), Dec(9, -2))
       ELSE DecZero

\* the same amount for a gross pay in tenths of a penny, as an exact fraction: this
\* many 4000ths of a penny
ClaimedLoanFourThousandths(plan, gross) ==
    3 * Max2(0, 12 * gross - 1000 * ClaimedLoanThresholds[plan])

\* C16: the student-loan repayment is 0 when the employee has no plan or the plan is
\* 'none'; under plan_1, plan_2, plan_4 and plan_5 it is 9% of the period's gross pay
\* above the plan's annual threshold / 12, and 0 when the gross pay does not exceed
\* that monthly threshold. The returned student_loan is that amount to the nearest penny.
C16_StudentLoan ==
    IsReturned =>
        LET student_loan == calculate_student_loan(employee, RequestSalary, RequestGross)
        IN /\ RequestPlan \in {"", "none"} =>
                  student_loan = DecZero /\ result.value.student_loan = 0
           /\ RequestPlan \in DOMAIN ClaimedLoanThresholds =>
                  /\ student_loan = ClaimedLoan(RequestPlan, RequestGross)
                  /\ result.value.student_loan = Money(student_loan)
                  /\ 2 * Abs(4000 * result.value.student_loan
                                 - ClaimedLoanFourThousandths(RequestPlan, GrossMils)) <= 4000
                  /\ 12 * GrossMils <= 1000 * ClaimedLoanThresholds[RequestPlan] =>
                         student_loan = DecZero

\* plan_2 on a gross pay of 3,000: 9% of 3,000 - 27,295 / 12 is 65.29
C16_Witness ==
    /\ IsReturned
    /\ RequestPlan = "plan_2"
    /\ GrossMils = 3000000
    /\ result.value.student_loan = 6529

\* the employee with the custom employer pension rate r (thousandths) set
WithEmployerRate(r) ==
    [f \in DOMAIN employee \cup {"employer_pension_contribution"} |->
        IF f = "employer_pension_contribution" THEN <<r>> ELSE employee[f]]

\* C17 as claimed: on the returned breakdown total_employer_cost is gross_pay +
\* employer_ni + employer_pension
C17_EmployerCostAsClaimed ==
    (IsReturned /\ ValidRequest) =>
        result.value.total_employer_cost
            = result.value.gross_pay + result.value.employer_ni + result.value.employer_pension

\* C17, amended: the employer's amounts are reported and never deducted. The returned
\* net_pay does not change with the employer's pension rate, and it stays within the
\* rounding of its six terms of gross pay less the employee's own deductions, however
\* large employer_ni and employer_pension are. The returned total_employer_cost is
\* the unrounded gross pay + employer NI + employer pension rounded to two places,
\* which is within a penny of the sum of the three returned fields when the pay
\* components are whole pence (within two otherwise).
C17_EmployerCost ==
    IsReturned =>
        LET amounts == payroll_amounts(employee, payslip_data)
            value == result.value
        IN /\ RequestEmployerRate # <<100>> =>
                  calculate_payroll(WithEmployerRate(100), payslip_data).net_pay = value.net_pay
           /\ Abs(value.net_pay
                      - (value.gross_pay - value.paye_tax - value.national_insurance
                             - value.pension_contribution - value.student_loan
                             - value.other_deductions)) <= 3
           /\ value.total_employer_cost
                  = Money(DecAdd(DecAdd(amounts.gross_pay, amounts.employer_ni),
                                 amounts.employer_pension))
           /\ Abs(value.total_employer_cost
                      - (value.gross_pay + value.employer_ni + value.employer_pension))
                  <= IF WholePence THEN 1 ELSE 2

\* a large employer NI and a custom employer pension rate of 10% beside a net pay
\* that carries neither
C17_Witness ==
    /\ IsReturned
    /\ RequestEmployerRate = <<100>>
    /\ RequestScheme = "auto_enrolment"
    /\ employee.salary = 5000000
    /\ result.value.employer_ni > 3
    /\ 10 * result.value.employer_pension = result.value.gross_pay
    /\ result.value.total_employer_cost
           = result.value.gross_pay + result.value.employer_ni + result.value.employer_pension

\* C18: calculate_payroll is a function of its inputs and the rate tables. Every
\* call that has returned, however its steps were interleaved with those of other
\* calls, holds the breakdown the same inputs give when the call runs alone, and
\* two calls with identical inputs hold identical breakdowns.
C18_Pure ==
    \A c \in Callers :
        calls[c].pc = "returned" =>
            /\ calls[c].value = calculate_payroll(calls[c].employee, calls[c].payslip_data)
            /\ \A d \in Callers :
                   (/\ calls[d].pc = "returned"
                    /\ calls[d].employee = calls[c].employee
                    /\ calls[d].payslip_data = calls[c].payslip_data)
                       => calls[d].value = calls[c].value

\* two calls for different employees have returned, each after steps taken while
\* the other was part-way through
C18_Witness ==
    /\ calls[1].pc = "returned" /\ calls[1].overlapped
    /\ calls[2].pc = "returned" /\ calls[2].overlapped
    /\ calls[1].employee # calls[2].employee
    /\ calls[1].value.paye_tax = 111933
    /\ calls[2].value.paye_tax # 111933

\* C19: no function of the module writes to a rate table: after any sequence of
\* calls of calculate_payroll, the six calculators, the validators and the
\* pension-scheme lookups, TAX_RATES, TAX_BANDS, NI_RATES, NI_THRESHOLDS,
\* STUDENT_LOAN_THRESHOLDS, STUDENT_LOAN_RATES and HMRC_PENSION_SCHEMES hold the
\* values they were given at import.
C19_TablesUntouched == tables = RateTables

\* a lookup of a scheme the table does not hold has answered with the
\* auto_enrolment entry, after a payroll calculation, and the table has no new key
C19_Witness ==
    /\ IsReturned
    /\ lookup.op = "get_pension_scheme_info"
    /\ lookup.arg = "bogus_scheme"
    /\ lookup.answer = HMRC_PENSION_SCHEMES["auto_enrolment"]
    /\ "bogus_scheme" \notin DOMAIN tables.HMRC_PENSION_SCHEMES
    /\ tables = RateTables

\* The value the claim calls valid: after spaces are removed and letters made
\* capital, nine characters, two of A-Z, six of 0-9 and one of A-Z, the first two
\* not a prefix of the blocklist.
ClaimedNiValid(value) ==
    LET v == Upper(RemoveSpaces(value))
    IN /\ Len(v) = 9
       /\ \A i \in {1, 2, 9} : v[i] \in AsciiUpper
       /\ \A i \in 3..8 : v[i] \in DigitChars
       /\ SubSeq(v, 1, 2) \notin invalid_prefixes

\* C20: validate_ni_number answers true exactly for the values of that form, and
\* false for every other, the empty string included.  The code tests the letters
\* with str.isalpha and the digits with str.isdigit, which accept letters and
\* digits outside A-Z and 0-9.
C20_NiNumber ==
    lookup.op = "validate_ni_number" => lookup.answer = ClaimedNiValid(lookup.arg)

\* ------------------------------------------------------------------------
\* C21: the tax codes validate_tax_code accepts
\* ------------------------------------------------------------------------

\* the codes the claim lists: the flat codes, NT and the Scottish flat codes
ClaimedSpecialCodes ==
    {BR, D0, D1, NT, <<"S", "B", "R">>, <<"S", "D", "0">>, <<"S", "D", "1">>}

\* an optional S, one or more of the digits 0 to 9, a final L
ClaimedNumericCode(code) ==
    LET body == IF StartsWith(code, "S") THEN Tail(code) ELSE code
    IN  /\ Len(body) >= 2
        /\ body[Len(body)] = "L"
        /\ \A i \in 1..(Len(body) - 1) : body[i] \in DigitChars

ClaimedTaxCodeValid(code) == code \in ClaimedSpecialCodes \/ ClaimedNumericCode(code)

\* C21: validate_tax_code answers true exactly for BR, D0, D1, NT, SBR, SD0, SD1 and
\* for the strings made of an optional S, one or more digits and a final L, and
\* false for every other string, the empty one included.
C21_TaxCode ==
    lookup.op = "validate_tax_code" => (lookup.answer <=> ClaimedTaxCodeValid(lookup.arg))

\* ------------------------------------------------------------------------
\* C22: a record that fails does not stop the batch
\* ------------------------------------------------------------------------

\* the printed lines that report a failure, and the records they name
FailureLines == {k \in 1..Len(run.printed) : "failed" \in DOMAIN run.printed[k]}
FailedReferences == {run.printed[k].failed : k \in FailureLines}

\* the record at place i of the batch left a payslip for the commit or a failure line
Accounted(i) ==
    \/ run.employee_records[i].reference \in FailedReferences
    \/ \E k \in 1..Len(run.payslips_created) :
           run.payslips_created[k].employee_id = run.employee_records[i].id

\* every payslip the loop created is a row of the payslips table
CreatedAreStored ==
    \A k \in 1..Len(run.payslips_created) :
        \E row \in db.payslips :
            \A f \in DOMAIN run.payslips_created[k] : row[f] = run.payslips_created[k][f]

ExposedFailures == {run.returned[k] : k \in 1..Len(run.returned)}

\* the failures the loop met, as the except block printed them
MetFailures == {[employee |-> run.printed[k].failed, error |-> run.printed[k].error] :
                    k \in FailureLines}

\* C23: at the end of a batch run the caller is given a list with an (employee,
\* error) entry for every record whose processing failed.
C23_FailuresExposed ==
    (InBatch /\ run.pc = "done") => ExposedFailures = MetFailures

\* ------------------------------------------------------------------------
\* C24: a calculation that returns leaves a stored payslip
\* ------------------------------------------------------------------------

\* the payslips table holds exactly one row of the employee with the calculated values
StoredOnce(employee_id, breakdown) ==
    Cardinality({row \in db.payslips :
                     /\ "net_pay" \in DOMAIN row
                     /\ row.employee_id = employee_id
                     /\ \A f \in DOMAIN breakdown \cap DOMAIN row : row[f] = breakdown[f]
                     /\ DOMAIN breakdown \subseteq DOMAIN row}) = 1

\* C24: whenever calculate_payroll returns for an employee, in calculate_payslip or
\* in a batch run, one Payslip with the calculated values is created and committed:
\* the Payslip constructor accepts every key of the returned dict.
C24_PayslipStored ==
    /\ (run.op = "calculate_payslip" /\ run.pc = "done"
            /\ run.calculation.status = "returned") =>
           /\ run.response.status = 201
           /\ StoredOnce(run.request.employee_id, run.calculation.value)
    /\ (InBatch /\ run.pc = "done") =>
           \A i \in 1..Len(run.calculations) :
               run.calculations[i] = "returned" =>
                   \E row \in db.payslips : row.employee_id = run.employee_records[i].id

\* ------------------------------------------------------------------------
\* C30: calculate_payslip for an employee that is absent or not active
\* ------------------------------------------------------------------------

\* the employees of the table that have the id and are flagged active
FlaggedActive(employee_id) ==
    \E e \in db.employees : e.id = employee_id /\ e.is_active = <<TRUE>>

\* C30: calculate_payslip for an id that no employee has, or whose employee is not
\* active, answers 404 without calling the calculation and leaves the stored
\* payslips as they were.
C30_NotFound ==
    [][(Idle /\ run'.op = "calculate_payslip"
            /\ ~FlaggedActive(run'.request.employee_id)) =>
          /\ run'.pc = "done"
          /\ run'.response.status = 404
          /\ run'.calculation = NotCalled
          /\ db' = db]_vars

\* calculate_payslip has answered 404 to a request for an employee that is inactive
\* (2), has no active flag (4) or does not exist (9)
C30_Witness ==
    /\ run.op = "calculate_payslip"
    /\ run.pc = "done"
    /\ run.request.employee_id \in {2, 4, 9}
    /\ run.response.status = 404

\* ------------------------------------------------------------------------
\* C27: the tax codes with a regime of their own
\* ------------------------------------------------------------------------

\* the flat rate of the four special codes
SpecialRate(tax_code) ==
    IF tax_code = BR THEN TAX_RATES.basic_rate
    ELSE IF tax_code = D0 THEN TAX_RATES.higher_rate
    ELSE IF tax_code = D1 THEN TAX_RATES.additional_rate
    ELSE DecZero

\* the PAYE of the same salary and gross pay under the tax code 1257L
PayeUnder1257L ==
    calculate_paye_tax([employee EXCEPT !.tax_code = Code1257L],
                       Dec(employee.salary, SalaryExp), Dec(payslip_data.basic_pay, PayExp))

OtherPeriod == [basic_pay |-> 2000000, overtime_pay |-> 70000, bonus_pay |-> 0, other_pay |-> 30]
SameEmployeeOtherSalary == [employee EXCEPT !.salary = 3100000]

SameAmounts(breakdown, other, fields) == \A f \in fields : breakdown[f] = other[f]

NumericAllowance == employee.tax_code \in {Code1257L, CodeS1257L}

\* C28: under a tax code with a numeric allowance, the paye_tax, national_insurance
\* and employer_ni that calculate_payroll returns are those of any other pay period
\* of the same employee, and the pension_contribution and student_loan are those of
\* the same pay period under any other annual salary.
C28_SalaryOrGross ==
    (result.status = "returned" /\ NumericAllowance) =>
        /\ SameAmounts(result.value, calculate_payroll(employee, OtherPeriod),
                       {"paye_tax", "national_insurance", "employer_ni"})
        /\ SameAmounts(result.value,
                       calculate_payroll(SameEmployeeOtherSalary, payslip_data),
                       {"pension_contribution", "student_loan"})

\* an employee repaying a student loan whose gross pay is not a twelfth of the salary:
\* the amounts on the salary are not zero and those on the gross pay differ from the
\* ones of the other period
C28_Witness ==
    /\ result.status = "returned"
    /\ NumericAllowance
    /\ result.value.paye_tax > 0
    /\ result.value.national_insurance > 0
    /\ result.value.employer_ni > 0
    /\ result.value.student_loan > 0
    /\ result.value.gross_pay * 12 # employee.salary
    /\ result.value.pension_contribution
           # calculate_payroll(employee, OtherPeriod).pension_contribution
    /\ result.value.student_loan # calculate_payroll(employee, OtherPeriod).student_loan

\* ------------------------------------------------------------------------
\* C29: registration numbers stay unique
\* ------------------------------------------------------------------------

\* the request served by this step is a create_company whose registration number no
\* stored company has
CreateUnused ==
    /\ run'.op = "create_company"
    /\ WithNumber(db.companies, run'.request.registration_number) = {}

\* the request served by this step would give a company the registration number of
\* another stored company
WouldDuplicate ==
    \/ /\ run'.op = "create_company"
       /\ WithNumber(db.companies, run'.request.registration_number) # {}
    \/ /\ run'.op = "update_company"
       /\ \E c \in db.companies : c.id = run'.request.company_id
       /\ \E other \in WithNumber(db.companies,
                                  run'.request.company_data.registration_number) :
              other.id # run'.request.company_id

\* a create_company with an unused number answers 201 with the submitted fields and
\* stores the company it returns
CreateStores ==
    CreateUnused =>
        /\ run'.response.status = 201
        /\ \A f \in DOMAIN run'.request : run'.response.company[f] = run'.request[f]
        /\ db'.companies = db.companies \cup {run'.response.company}
        /\ run'.response.company \notin db.companies

\* a request that would duplicate a number answers 400 and changes nothing
DuplicateRejected == WouldDuplicate => (run'.response.status = 400 /\ db' = db)

\* C29: after any sequence of create_company, update_company, upload_companies_csv
\* and delete_company requests no two stored companies have the same registration
\* number; create_company with an unused number stores a company with the submitted
\* fields and returns it with 201; a create or update that would duplicate the number
\* of another company is rejected with 400 and leaves the stored companies unchanged.
C29_UniqueRegistration ==
    /\ []UniqueNumbers(db.companies)
    /\ [][CreateStores /\ DuplicateRejected]_vars

\* two companies are stored, and an update that asked for the other company's
\* registration number has been rejected
C29_Witness ==
    /\ run.op = "update_company"
    /\ run.response.status = 400
    /\ Cardinality(db.companies) = 2
    /\ \E c \in db.companies : c.id = 3

\* ------------------------------------------------------------------------
\* C25: a payslip is submitted to HMRC at most once
\* ------------------------------------------------------------------------

\* how many of the requests answered 200 were for the payslip
Successes(payslip_id) == Cardinality({k \in 1..Len(calls) : calls[k] = payslip_id})

\* no request is suspended between its look at rti_submitted and its write, so that
\* requests on a payslip interleave as whole requests, and no payslip has two
\* requests answered 200
OneSubmission ==
    /\ run.pc # "sleep"
    /\ \A payslip_id \in RtiPayslipIds : Successes(payslip_id) <= 1
    /\ \A p \in db.payslips : p.rti_submitted <=> Successes(p.id) = 1

\* a request for a payslip already submitted answers 400 and changes nothing
SecondRefused ==
    (\E p \in db.payslips : p.id = run'.request /\ p.rti_submitted) =>
        (run'.response.status = 400 /\ db' = db /\ calls' = calls)

\* a payslip once submitted keeps its row, its reference included
ReferenceKept == \A p \in db.payslips : p.rti_submitted => p \in db'.payslips

\* C25: for any payslip and any interleaving of submit_rti requests on it, at most one
\* request submits an RTI return and succeeds; a request made once rti_submitted is
\* true fails with 400 and changes nothing; rti_reference, once set, is never
\* overwritten by another submission.
C25_SingleSubmission ==
    /\ []OneSubmission
    /\ [][SecondRefused /\ ReferenceKept]_vars

\* a second request for a submitted payslip has been refused with 400
C25_Witness ==
    /\ run.op = "submit_rti"
    /\ run.response.status = 400
    /\ Successes(run.request) = 1
    /\ \E p \in db.payslips : p.id = run.request /\ p.rti_reference # None

\* ------------------------------------------------------------------------
\* C26: a payslip is marked submitted only when HMRC accepted the return
\* ------------------------------------------------------------------------

\* the request answered last got a response of submit_rti_return that is not
\* 'accepted'
NotAccepted ==
    /\ run.op = "submit_rti"
    /\ run.pc = "done"
    /\ run.rti_response.status \in {"rejected", "error"}

\* C26: submit_rti sets rti_submitted and answers with the status 'accepted' only when
\* the response of submit_rti_return has the status 'accepted'; when the mock rejects
\* the data or reports a system error, the payslip stays unsubmitted and the request
\* does not report success.
C26_AcceptedOnly ==
    NotAccepted =>
        /\ run.response.status # 200
        /\ \A p \in db.payslips : p.id = run.request => ~p.rti_submitted

====
